---------------------------- MODULE Spec2Model ----------------------------
(***************************************************************************)
(* Model of the orbital risk-calculation engine of noverd/rt0s:            *)
(*   utils/risk_calculator.py      assign_risk_class,                      *)
(*                                 calculate_collision_financial_risk,     *)
(*                                 calculate_launch_collision_risk         *)
(*   satellite_tracker/orbit.py    _altitude_to_mean_motion,               *)
(*                                 calculate_orbit_congestion_by_altitude  *)
(*                                                                         *)
(* Numbers.  The program computes with Python floats.  TLC has 32-bit      *)
(* integers only, so a float is modelled by an exact rational number whose *)
(* numerator and denominator are arbitrary-precision naturals (sequences   *)
(* of base-10^3 limbs, least significant first).  Rounding error of the    *)
(* individual float operations is therefore not modelled; the float        *)
(* effects that change the control flow (underflow of radius ** 2 to 0.0,  *)
(* OverflowError of "**") are modelled explicitly where they occur.        *)
(* math.pi, math.sqrt and math.exp are                                     *)
(* library functions; they are modelled by PI (15 decimals), a floor       *)
(* square root with 6 decimals, and a monotone rational approximation of   *)
(* exp with exp(0) = 1.                                                    *)
(***************************************************************************)
EXTENDS Integers, Sequences, FiniteSets, Bags, TLC

(***************************************************************************)
(* The arithmetic below is one family of mutually dependent operators.     *)
(* Each operator F of the family is the application Calc("F", arguments)   *)
(* and has its definition in FImpl: every use of one operator by another   *)
(* passes through the recursive operator Calc, which evaluates the         *)
(* arguments before the body and keeps the evaluation, and TLC's           *)
(* bookkeeping of it, linear in the size of the definitions.               *)
(***************************************************************************)
RECURSIVE Calc(_, _)

NTrim(a) == Calc("NTrim", <<a>>)

NAdd(a, b) == Calc("NAdd", <<a, b>>)

NCmp(a, b) == Calc("NCmp", <<a, b>>)

NSub(a, b) == Calc("NSub", <<a, b>>)

NMulSmall(a, k) == Calc("NMulSmall", <<a, k>>)

NMul(a, b) == Calc("NMul", <<a, b>>)

NPow(a, k) == Calc("NPow", <<a, k>>)

NDigit(r, b) == Calc("NDigit", <<r, b>>)

NDivMod(a, b) == Calc("NDivMod", <<a, b>>)

NSqrtDigit(a, cur, k) == Calc("NSqrtDigit", <<a, cur, k>>)

NSqrt(a) == Calc("NSqrt", <<a>>)

RAdd(u, v) == Calc("RAdd", <<u, v>>)

RMul(u, v) == Calc("RMul", <<u, v>>)

RDiv(u, v) == Calc("RDiv", <<u, v>>)

RCmp(u, v) == Calc("RCmp", <<u, v>>)

RPow(u, k) == Calc("RPow", <<u, k>>)

round(u, nd) == Calc("round", <<u, nd>>)

sqrt(u) == Calc("sqrt", <<u>>)

exp(u) == Calc("exp", <<u>>)

FloatSquare(u) == Calc("FloatSquare", <<u>>)

AtLeastPow2(u, m) == Calc("AtLeastPow2", <<u, m>>)

PowOverflows(u, k) == Calc("PowOverflows", <<u, k>>)

(***************************************************************************)
(* Arbitrary-precision naturals: <<>> is 0, a[1] is the least significant  *)
(* limb, the most significant limb is never 0.  Carries are found by       *)
(* looking back for the place that generates them, so that addition,       *)
(* subtraction and multiplication need no recursion over the limbs.        *)
(***************************************************************************)
Base == 10 ^ 3

Max(S) == CHOOSE i \in S : \A j \in S : j <= i

NTrimImpl(a) ==
    LET nz == {i \in 1..Len(a) : a[i] # 0}
    IN  IF nz = {} THEN <<>> ELSE SubSeq(a, 1, Max(nz))

RECURSIVE NFromInt(_)
NFromInt(k) == IF k = 0 THEN <<>> ELSE <<k % Base>> \o NFromInt(k \div Base)

Limb(a, i) == IF i <= Len(a) THEN a[i] ELSE 0

\* the sequence f[1], ..., f[n] with every limb computed, once
Limbs(f, n) == SubSeq(f, 1, n)

NShift(a, n) == [j \in 1..n |-> 0] \o a

\* a + b, also for a and b with leading zero limbs
NAddImpl(a, b) ==
    LET n == IF Len(a) >= Len(b) THEN Len(a) ELSE Len(b)
        s == Limbs([i \in 1..n |-> Limb(a, i) + Limb(b, i)], n)
        \* a carry enters place i from a place below that overflows, through
        \* places that hold Base - 1
        cin(i) == IF \E j \in 1..(i - 1) :
                        s[j] >= Base /\ \A k \in (j + 1)..(i - 1) : s[k] = Base - 1
                  THEN 1 ELSE 0
        r == Limbs([i \in 1..n |-> (s[i] + cin(i)) % Base], n)
    IN  IF cin(n + 1) = 1 THEN r \o <<1>> ELSE r

\* -1, 0 or 1 as a < b, a = b, a > b
NCmpImpl(a, b) ==
    IF Len(a) > Len(b) THEN 1
    ELSE IF Len(a) < Len(b) THEN -1
    ELSE IF \E i \in 1..Len(a) : a[i] > b[i] /\ \A k \in (i + 1)..Len(a) : a[k] = b[k]
    THEN 1
    ELSE IF a = b THEN 0 ELSE -1

\* a - b for a >= b
NSubImpl(a, b) ==
    LET n == Len(a)
        d == Limbs([i \in 1..n |-> a[i] - Limb(b, i)], n)
        \* a borrow enters place i from a place below that is negative,
        \* through places that hold 0
        bin(i) == IF \E j \in 1..(i - 1) :
                        d[j] < 0 /\ \A k \in (j + 1)..(i - 1) : d[k] = 0
                  THEN 1 ELSE 0
    IN  NTrim(Limbs([i \in 1..n |-> (d[i] - bin(i) + Base) % Base], n))

\* a * k for a limb 0 <= k < Base
NMulSmallImpl(a, k) ==
    IF k = 0 \/ a = <<>> THEN <<>>
    ELSE IF k = 1 THEN a
    ELSE LET p == Limbs([i \in 1..Len(a) |-> a[i] * k], Len(a))
         IN  NTrim(NAdd(Limbs([i \in 1..Len(a) |-> p[i] % Base], Len(a)),
                        NShift([i \in 1..Len(a) |-> p[i] \div Base], 1)))

\* a * b by columns: column i sums the products of the limbs whose places add
\* up to i; the shorter factor has fewer than 2000 limbs, which keeps a
\* column below 2^31
NMulImpl(a, b) ==
    IF a = <<>> \/ b = <<>> THEN <<>>
    ELSE
    LET n == Len(a) + Len(b) - 1
        Terms(i) == {j \in 1..Len(b) : /\ i - j + 1 >= 1
                                       /\ i - j + 1 <= Len(a)
                                       /\ a[i - j + 1] * b[j] > 0}
        col == Limbs([i \in 1..n |->
                         BagCardinality([j \in Terms(i) |-> a[i - j + 1] * b[j]])], n)
        Part(e) == NShift([i \in 1..n |-> (col[i] \div (Base ^ e)) % Base], e)
    IN  NTrim(NAdd(NAdd(Part(0), Part(1)), NAdd(Part(2), Part(3))))

NPowImpl(a, k) ==
    IF k = 0 THEN <<1>>
    ELSE LET h == NPow(a, k \div 2)
         IN  IF h = <<>> THEN <<>>
             ELSE IF k % 2 = 0 THEN NMul(h, h) ELSE NMul(a, NMul(h, h))

\* The largest limb q with b * q <= r, for r < b * Base.  Steps is the number of
\* i in 1..9 for which the monotone test Fits holds at from + i * step: one
\* decimal digit of the limb, found without recursion.
NDigitImpl(r, b) ==
    LET Fits(q) == NCmp(NMulSmall(b, q), r) <= 0
        Steps(from, step) == Cardinality({i \in 1..9 : Fits(from + i * step)})
        q2 == 100 * Steps(0, 100)
        q1 == q2 + 10 * Steps(q2, 10)
    IN  q1 + Steps(q1, 1)

\* long division of the limbs hi down to lo of a by b, with r the remainder of
\* the limbs above hi: [q |-> the quotient limbs lo..hi, r |-> the remainder]
RECURSIVE NDivR(_, _, _, _, _)
NDivR(a, b, lo, hi, r) ==
    IF lo = hi
    THEN LET r1 == NTrim(<<a[lo]>> \o r)
             dg == IF NCmp(r1, b) < 0 THEN 0 ELSE NDigit(r1, b)
         IN  [q |-> <<dg>>, r |-> NSub(r1, NMulSmall(b, dg))]
    ELSE LET mid == (lo + hi) \div 2
             H   == NDivR(a, b, mid + 1, hi, r)
             L   == NDivR(a, b, lo, mid, H.r)
         IN  \* the test makes H, on which L depends, the first to be evaluated
             IF Len(H.q) = 0 THEN L ELSE [q |-> L.q \o H.q, r |-> L.r]

\* floor quotient and remainder of a by b, b # 0
NDivModImpl(a, b) ==
    IF NCmp(a, b) < 0 THEN [q |-> <<>>, r |-> a]
    ELSE \* the top Len(b) - 1 limbs of a give no quotient limb: start below them
         LET low == Len(a) - Len(b) + 1
             x   == NDivR(a, b, 1, low, NTrim(SubSeq(a, low + 1, Len(a))))
         IN  [q |-> NTrim(x.q), r |-> x.r]

\* the largest limb q at place k with (cur + q * Base^(k-1))^2 <= a
NSqrtDigitImpl(a, cur, k) ==
    LET Cand(q) == NAdd(cur, NShift(NFromInt(q), k - 1))
        Fits(q) == NCmp(NMul(Cand(q), Cand(q)), a) <= 0
        Steps(from, step) == Cardinality({i \in 1..9 : Fits(from + i * step)})
        q2 == 100 * Steps(0, 100)
        q1 == q2 + 10 * Steps(q2, 10)
    IN  q1 + Steps(q1, 1)

RECURSIVE NSqrtAt(_, _, _)
NSqrtAt(a, cur, k) ==
    IF k = 0 THEN cur
    ELSE LET dg == NSqrtDigit(a, cur, k)
         IN  NSqrtAt(a, NAdd(cur, NShift(NFromInt(dg), k - 1)), k - 1)

\* floor of the square root of a
NSqrtImpl(a) == NSqrtAt(a, <<>>, (Len(a) + 1) \div 2)

(***************************************************************************)
(* Exact rationals: [neg, n, d] is (-1)^neg * n / d with d # 0; zero has   *)
(* neg = FALSE.  Values are not reduced: compare them with REq, never "=". *)
(***************************************************************************)
RMk(neg, n, d) == [neg |-> neg /\ n # <<>>, n |-> n, d |-> d]

\* the rational a / b for integers a and b > 0
RFrac(a, b) == RMk(a < 0, NFromInt(IF a < 0 THEN -a ELSE a), NFromInt(b))

RInt(a) == RFrac(a, 1)

RZero == RInt(0)

ROne == RInt(1)

RNeg(u) == RMk(~u.neg, u.n, u.d)

RAbs(u) == RMk(FALSE, u.n, u.d)

RAddImpl(u, v) ==
    LET same == u.d = v.d
        a == IF same THEN u.n ELSE NMul(u.n, v.d)
        b == IF same THEN v.n ELSE NMul(v.n, u.d)
        d == IF same THEN u.d ELSE NMul(u.d, v.d)
    IN  IF u.neg = v.neg THEN RMk(u.neg, NAdd(a, b), d)
        ELSE IF NCmp(a, b) >= 0 THEN RMk(u.neg, NSub(a, b), d)
        ELSE RMk(v.neg, NSub(b, a), d)

RSub(u, v) == RAdd(u, RNeg(v))

RMulImpl(u, v) == RMk(u.neg # v.neg, NMul(u.n, v.n), NMul(u.d, v.d))

\* u / v for v # 0
RDivImpl(u, v) == RMk(u.neg # v.neg, NMul(u.n, v.d), NMul(u.d, v.n))

\* -1, 0 or 1 as u < v, u = v, u > v
RCmpImpl(u, v) ==
    IF u.neg /\ ~v.neg THEN -1
    ELSE IF ~u.neg /\ v.neg THEN 1
    ELSE LET c == NCmp(NMul(u.n, v.d), NMul(v.n, u.d))
         IN  IF u.neg THEN -c ELSE c

RLess(u, v) == RCmp(u, v) < 0

RLeq(u, v) == RCmp(u, v) <= 0

REq(u, v) == RCmp(u, v) = 0

\* Python's u ** k for an int k >= 0 (u ** 0 is 1.0)
RPowImpl(u, k) == RMk(u.neg /\ k % 2 = 1, NPow(u.n, k), NPow(u.d, k))

\* round(u, nd) as a truncation towards zero
round_truncating(u, nd) ==
    LET scale == NPow(<<10>>, nd)
    IN  RMk(u.neg, NDivMod(NMul(u.n, scale), u.d).q, scale)

\* Python's round(u, nd): the nearest multiple of 10^-nd, ties to the even one
roundImpl(u, nd) ==
    LET scale == NPow(<<10>>, nd)
        dm    == NDivMod(NMul(u.n, scale), u.d)
        twice == NCmp(NMulSmall(dm.r, 2), u.d)
        odd   == Limb(dm.q, 1) % 2 = 1
        up    == twice > 0 \/ (twice = 0 /\ odd)
    IN  RMk(u.neg, IF up THEN NAdd(dm.q, <<1>>) ELSE dm.q, scale)

\* math.pi = 3.141592653589793
PI == RMk(FALSE, NAdd(NMul(NFromInt(31415926), NFromInt(10 ^ 8)), NFromInt(53589793)),
          NPow(<<10>>, 15))

\* math.sqrt(u) for u >= 0, rounded down to 6 decimals
sqrtImpl(u) ==
    LET scale == NPow(<<10>>, 12)
    IN  RMk(FALSE, NSqrt(NDivMod(NMul(u.n, scale), u.d).q), NPow(<<10>>, 6))

\* math.exp(u): 1 + u + u^2/2 for u >= 0 and its reciprocal at -u for u < 0,
\* so that exp(0) = 1, exp is positive and strictly increasing
expImpl(u) ==
    LET a == RAbs(u)
        e == RAdd(ROne, RAdd(a, RDiv(RMul(a, a), RInt(2))))
    IN  IF u.neg THEN RDiv(ROne, e) ELSE e


(***************************************************************************)
(* Float effects of calculate_launch_collision_risk that decide its        *)
(* control flow: underflow of radius ** 2 and OverflowError of "**".       *)
(***************************************************************************)
\* 2^-1075: a positive double result at or below it rounds to 0.0
HalfMinSubnormal == RMk(FALSE, <<1>>, NPow(<<2>>, 1075))

\* u ** 2 as a double: underflows to 0.0
FloatSquareImpl(u) ==
    LET sq == RMul(u, u)
    IN  IF RLeq(sq, HalfMinSubnormal) THEN RZero ELSE sq

\* |u| >= 2^m.  2^10 exceeds Base, so u.n, which is below Base^Len(u.n), cannot
\* reach u.d * 2^m once m >= 10 * (Len(u.n) - Len(u.d) + 1): no power is
\* computed then.
AtLeastPow2Impl(u, m) ==
    IF m >= 10 * (Len(u.n) - Len(u.d) + 1) THEN FALSE
    ELSE NCmp(u.n, NMul(u.d, NPow(<<2>>, m))) >= 0

\* Whether the float power u ** k raises OverflowError, which it does when its
\* magnitude reaches 2^1024.  |u| >= 2^ceil(1024/k) makes it certain and
\* |u| < 2^floor(1023/k) excludes it; in between both outcomes are allowed.
PowOverflowsImpl(u, k) ==
    IF k = 0 \/ NCmp(u.n, u.d) <= 0 THEN {FALSE}
    ELSE IF AtLeastPow2(u, (1024 + k - 1) \div k) THEN {TRUE}
    ELSE IF ~AtLeastPow2(u, 1023 \div k) THEN {FALSE}
    ELSE BOOLEAN

(***************************************************************************)
(* utils/risk_calculator.py                                                *)
(***************************************************************************)
R_EARTH_KM == RInt(6371)

SEC_PER_YEAR == RInt(31536000)

INSURANCE_COEFFICIENT == RFrac(15, 10)

\* the texts are Russian in the source; each is given by the bound it names
RISK_CLASS_DESCRIPTIONS ==
    [c \in {"F (Extremely High)", "E (Very High)", "D (High)", "C (Moderate)",
            "B (Low)", "A (Very Low)", "A+ (Minimal)"} |->
        CASE c = "F (Extremely High)" -> ">1%"
          [] c = "E (Very High)"      -> ">0.1%"
          [] c = "D (High)"           -> ">0.01%"
          [] c = "C (Moderate)"       -> ">0.001%"
          [] c = "B (Low)"            -> ">0.0001%"
          [] c = "A (Very Low)"       -> ">0.00001%"
          [] OTHER                    -> "minimal"]

\* assign_risk_class with inclusive class bounds
assign_risk_class_inclusive(collision_probability) ==
    IF RLeq(RFrac(1, 10 ^ 2), collision_probability) THEN "F (Extremely High)"
    ELSE IF RLeq(RFrac(1, 10 ^ 3), collision_probability) THEN "E (Very High)"
    ELSE IF RLeq(RFrac(1, 10 ^ 4), collision_probability) THEN "D (High)"
    ELSE IF RLeq(RFrac(1, 10 ^ 5), collision_probability) THEN "C (Moderate)"
    ELSE IF RLeq(RFrac(1, 10 ^ 6), collision_probability) THEN "B (Low)"
    ELSE IF RLeq(RFrac(1, 10 ^ 7), collision_probability) THEN "A (Very Low)"
    ELSE "A+ (Minimal)"

assign_risk_class(collision_probability) ==
    IF RLess(RFrac(1, 10 ^ 2), collision_probability) THEN "F (Extremely High)"
    ELSE IF RLess(RFrac(1, 10 ^ 3), collision_probability) THEN "E (Very High)"
    ELSE IF RLess(RFrac(1, 10 ^ 4), collision_probability) THEN "D (High)"
    ELSE IF RLess(RFrac(1, 10 ^ 5), collision_probability) THEN "C (Moderate)"
    ELSE IF RLess(RFrac(1, 10 ^ 6), collision_probability) THEN "B (Low)"
    ELSE IF RLess(RFrac(1, 10 ^ 7), collision_probability) THEN "A (Very Low)"
    ELSE "A+ (Minimal)"

\* V_shell of calculate_collision_financial_risk
V_shell(H_upper, H_lower) ==
    LET R_upper == RAdd(R_EARTH_KM, H_upper)
        R_lower == RAdd(R_EARTH_KM, H_lower)
    IN  RMul(RMul(RFrac(4, 3), PI), RSub(RPow(R_upper, 3), RPow(R_lower, 3)))

\* the probability without the complement: exp(-expected_collisions)
shell_collision_probability_not_complemented(expected_collisions) ==
    exp(RNeg(expected_collisions))

\* P_collision of calculate_collision_financial_risk
shell_collision_probability(expected_collisions) ==
    RSub(ROne, exp(RNeg(expected_collisions)))

calculate_collision_financial_risk(N_objects, H_upper, H_lower, V_rel, A_effective, T_years, C_full, D_lost) ==
    IF RLeq(V_shell(H_upper, H_lower), RZero)
    THEN [error |-> "Invalid altitude range, shell volume is zero or negative."]
    ELSE
    LET density             == RDiv(N_objects, V_shell(H_upper, H_lower))
        T_seconds           == RMul(T_years, SEC_PER_YEAR)
        A_effective_km2     == RDiv(A_effective, RInt(1000000))
        expected_collisions == RMul(RMul(RMul(density, V_rel), A_effective_km2), T_seconds)
        P_collision         == shell_collision_probability(expected_collisions)
        total_cost_at_risk  == RAdd(C_full, D_lost)
        financial_risk      == RMul(P_collision, total_cost_at_risk)
        insurance_premium   == RMul(financial_risk, INSURANCE_COEFFICIENT)
        risk_class          == assign_risk_class(P_collision)
    IN  [financial_risk         |-> round(financial_risk, 2),
         collision_risk         |-> P_collision,
         insurance_premium      |-> round(insurance_premium, 2),
         risk_class             |-> risk_class,
         risk_class_description |-> RISK_CLASS_DESCRIPTIONS[risk_class],
         object_count           |-> N_objects]

\* p_one_conjunction with the corridor cross-section taken as pi * radius
p_one_conjunction_radius_not_squared(N_conjunctions, launch_cylinder_radius_m, A_rocket) ==
    LET corridor_cross_section_m2 == RMul(PI, launch_cylinder_radius_m)
    IN  IF REq(corridor_cross_section_m2, RZero)
        THEN (IF N_conjunctions > 0 THEN ROne ELSE RZero)
        ELSE RDiv(A_rocket, corridor_cross_section_m2)

\* p_one_conjunction of calculate_launch_collision_risk, for a positive radius.
\* The cross-section of a positive radius is 0.0 when radius ** 2 underflows.
p_one_conjunction(N_conjunctions, launch_cylinder_radius_m, A_rocket) ==
    LET corridor_cross_section_m2 == RMul(PI, FloatSquare(launch_cylinder_radius_m))
    IN  IF REq(corridor_cross_section_m2, RZero)
        THEN (IF N_conjunctions > 0 THEN ROne ELSE RZero)
        ELSE RDiv(A_rocket, corridor_cross_section_m2)

\* The set of outcomes of a call: an error result, a report, or the
\* OverflowError that "**" raises out of the function, at radius ** 2 (line
\* 109) or at the power of the miss probability (line 119).
calculate_launch_collision_risk(N_conjunctions, launch_cylinder_radius_m, A_rocket, C_total_loss) ==
    IF RLeq(launch_cylinder_radius_m, RZero)
    THEN {[error |-> "Launch corridor radius must be positive."]}
    ELSE
    LET square_raises == PowOverflows(launch_cylinder_radius_m, 2)
        p_one == p_one_conjunction(N_conjunctions, launch_cylinder_radius_m, A_rocket)
        miss  == RSub(ROne, p_one)
        Report ==
            LET P_collision       == RSub(ROne, RPow(miss, N_conjunctions))
                financial_risk    == RMul(P_collision, C_total_loss)
                insurance_premium == RMul(financial_risk, INSURANCE_COEFFICIENT)
                risk_class        == assign_risk_class(P_collision)
                final_risk        == round(financial_risk, 2)
            IN  [financial_risk         |-> final_risk,
                 collision_risk         |-> P_collision,
                 insurance_premium      |-> round(insurance_premium, 2),
                 risk_class             |-> risk_class,
                 risk_class_description |-> RISK_CLASS_DESCRIPTIONS[risk_class],
                 object_count           |-> N_conjunctions]
    IN  (IF TRUE \in square_raises THEN {[raised |-> "OverflowError"]} ELSE {})
        \cup
        (IF FALSE \in square_raises
         THEN {IF raises THEN [raised |-> "OverflowError"] ELSE Report :
                  raises \in PowOverflows(miss, N_conjunctions)}
         ELSE {})

\* a value that has not been computed
Pending == [pending |-> TRUE]

IsPending(r) == "pending" \in DOMAIN r

IsError(r) == "error" \in DOMAIN r

IsRaised(r) == "raised" \in DOMAIN r

IsReport(r) == "collision_risk" \in DOMAIN r

(***************************************************************************)
(* satellite_tracker/orbit.py                                              *)
(***************************************************************************)
\* 398600.4418
MU_KM3_PER_S2 ==
    RMk(FALSE, NAdd(NMul(NFromInt(398600), NFromInt(10 ^ 4)), NFromInt(4418)),
        NFromInt(10 ^ 4))

\* 6378.137
EARTH_RADIUS_KM == RFrac(6378137, 10 ^ 3)

\* The set of outcomes of _altitude_to_mean_motion: the mean motion, or the
\* OverflowError that orbital_radius_km ** 3 raises.  math.sqrt raises
\* ValueError on a negative argument only; the period of a radius of at least
\* EARTH_RADIUS_KM is never 0, so that the branch returning float("inf") is
\* not taken.
altitude_to_mean_motion(altitude_km) ==
    IF RLess(altitude_km, RZero) THEN {RZero}
    ELSE
    LET orbital_radius_km == RAdd(EARTH_RADIUS_KM, altitude_km)
        cube_raises       == PowOverflows(orbital_radius_km, 3)
        ratio             == RDiv(RPow(orbital_radius_km, 3), MU_KM3_PER_S2)
        period_seconds    == RMul(RMul(RInt(2), PI), sqrt(ratio))
    IN  (IF TRUE \in cube_raises THEN {[raised |-> "OverflowError"]} ELSE {})
        \cup
        (IF FALSE \in cube_raises
         THEN {IF RLess(ratio, RZero) THEN RZero
               ELSE RDiv(RInt(86400), period_seconds)}
         ELSE {})

\* the mean motion of a circular orbit 500 km high: the value that
\* _altitude_to_mean_motion(500.0) returns, 86400 / 5676.978028...
MeanMotionAt500km ==
    RMk(FALSE, <<0, 0, 0, 0, 0, 0, 0, 400, 86>>,
        <<390, 786, 688, 902, 123, 28, 978, 676, 5>>)

\* The elements skyfield reads from a pair of TLE lines: construction raises
\* on a malformed pair; otherwise mean_motion is
\* satellite.model.no_kozai * (1440.0 / (2 * math.pi)) in revolutions per day
\* and inclination_deg is math.degrees(satellite.model.inclo).
EarthSatellite(line1, line2) ==
    CASE line2 = "2 25544  51.6400 15.50" ->
            [mean_motion |-> RFrac(1550, 100), inclination_deg |-> RFrac(5164, 100)]
      [] line2 = "2 25545  51.6000 15.52" ->
            [mean_motion |-> RFrac(1552, 100), inclination_deg |-> RFrac(5160, 100)]
      [] line2 = "2 33591  98.5000 14.25" ->
            [mean_motion |-> RFrac(1425, 100), inclination_deg |-> RFrac(985, 10)]
      [] line2 = "2 40000  45.0000 at 500 km" ->
            [mean_motion |-> MeanMotionAt500km, inclination_deg |-> RInt(45)]
      [] OTHER -> [raised |-> "ValueError"]

\* the range check with exclusive bounds
Between_exclusive(lo, x, hi) == RLess(lo, x) /\ RLess(x, hi)

\* the chained comparison lo <= x <= hi
Between(lo, x, hi) == RLeq(lo, x) /\ RLeq(x, hi)

RECURSIVE NToInt(_)
NToInt(a) == IF a = <<>> THEN 0 ELSE a[1] + Base * NToInt(Tail(a))

\* int(u) of a Python float: truncation towards zero
int(u) ==
    LET q == NToInt(NDivMod(u.n, u.d).q)
    IN  IF u.neg THEN -q ELSE q

\* the cell of an accepted object
cell_key(mean_motion, inclination_deg) ==
    <<round(mean_motion, 1), int(round(inclination_deg, 0))>>

\* update_cell with the old average weighted by the new count
update_cell_weighs_new_count(congestion_map, key, mean_motion, inclination_deg) ==
    LET data == IF key \in DOMAIN congestion_map THEN congestion_map[key]
                ELSE [count |-> 0, avg_inclination |-> RZero, avg_mean_motion |-> RZero]
        new_count == data.count + 1
        new_data ==
            [count |-> new_count,
             avg_inclination |->
                 RDiv(RAdd(RMul(data.avg_inclination, RInt(new_count)),
                           inclination_deg), RInt(new_count)),
             avg_mean_motion |->
                 RDiv(RAdd(RMul(data.avg_mean_motion, RInt(new_count)),
                           mean_motion), RInt(new_count))]
    IN  [k \in DOMAIN congestion_map \cup {key} |->
            IF k = key THEN new_data ELSE congestion_map[k]]

\* congestion_map after the cell of the key, created when absent, has taken
\* the object into its running averages and count
update_cell(congestion_map, key, mean_motion, inclination_deg) ==
    LET data == IF key \in DOMAIN congestion_map THEN congestion_map[key]
                ELSE [count |-> 0, avg_inclination |-> RZero, avg_mean_motion |-> RZero]
        current_count == data.count
        new_count     == current_count + 1
        new_data ==
            [count |-> new_count,
             avg_inclination |->
                 RDiv(RAdd(RMul(data.avg_inclination, RInt(current_count)),
                           inclination_deg), RInt(new_count)),
             avg_mean_motion |->
                 RDiv(RAdd(RMul(data.avg_mean_motion, RInt(current_count)),
                           mean_motion), RInt(new_count))]
    IN  [k \in DOMAIN congestion_map \cup {key} |->
            IF k = key THEN new_data ELSE congestion_map[k]]

\* loop_body with the object appended to the list before its inclination is
\* checked
loop_body_appends_before_inclination_check(sat_data, congestion_map, filtered_satellites, min_mean_motion_filter, max_mean_motion_filter, min_inclination, max_inclination) ==
    LET skipped == [congestion_map |-> congestion_map,
                    filtered_satellites |-> filtered_satellites]
        satellite == EarthSatellite(sat_data.line1, sat_data.line2)
    IN  IF sat_data.line1 = "" \/ sat_data.line2 = "" THEN skipped
        ELSE IF IsRaised(satellite) THEN skipped
        ELSE IF ~Between(min_mean_motion_filter, satellite.mean_motion,
                         max_mean_motion_filter) THEN skipped
        ELSE IF ~Between(min_inclination, satellite.inclination_deg,
                         max_inclination)
        THEN [congestion_map |-> congestion_map,
              filtered_satellites |-> Append(filtered_satellites, sat_data)]
        ELSE [congestion_map |->
                  update_cell(congestion_map,
                              cell_key(satellite.mean_motion, satellite.inclination_deg),
                              satellite.mean_motion, satellite.inclination_deg),
              filtered_satellites |-> Append(filtered_satellites, sat_data)]

\* One iteration of the loop over tle_data_dicts: the map and the list after
\* the object sat_data has been handled.
loop_body(sat_data, congestion_map, filtered_satellites, min_mean_motion_filter, max_mean_motion_filter, min_inclination, max_inclination) ==
    LET skipped == [congestion_map |-> congestion_map,
                    filtered_satellites |-> filtered_satellites]
        satellite == EarthSatellite(sat_data.line1, sat_data.line2)
    IN  IF sat_data.line1 = "" \/ sat_data.line2 = "" THEN skipped
        ELSE IF IsRaised(satellite) THEN skipped
        ELSE IF ~Between(min_mean_motion_filter, satellite.mean_motion,
                         max_mean_motion_filter) THEN skipped
        ELSE IF ~Between(min_inclination, satellite.inclination_deg,
                         max_inclination) THEN skipped
        ELSE [congestion_map |->
                  update_cell(congestion_map,
                              cell_key(satellite.mean_motion, satellite.inclination_deg),
                              satellite.mean_motion, satellite.inclination_deg),
              filtered_satellites |-> Append(filtered_satellites, sat_data)]

RECURSIVE congestion_loop(_, _, _, _, _, _)
\* congestion_map and filtered_satellites after the loop has handled the
\* first n objects of tle_data_dicts
congestion_loop(tle_data_dicts, n, min_mean_motion_filter, max_mean_motion_filter, min_inclination, max_inclination) ==
    IF n = 0 THEN [congestion_map |-> <<>>, filtered_satellites |-> <<>>]
    ELSE LET before == congestion_loop(tle_data_dicts, n - 1, min_mean_motion_filter,
                                       max_mean_motion_filter, min_inclination,
                                       max_inclination)
         IN  loop_body(tle_data_dicts[n], before.congestion_map,
                       before.filtered_satellites, min_mean_motion_filter,
                       max_mean_motion_filter, min_inclination, max_inclination)

\* The set of outcomes of a whole call: the returned map and list, or the
\* OverflowError of the conversion of an altitude bound.
calculate_orbit_congestion_by_altitude(tle_data_dicts, min_altitude_km, max_altitude_km, min_inclination, max_inclination) ==
    LET uppers == altitude_to_mean_motion(min_altitude_km)
        lowers == altitude_to_mean_motion(max_altitude_km)
    IN  {IF IsRaised(hi) THEN hi
         ELSE IF IsRaised(lo) THEN lo
         ELSE congestion_loop(tle_data_dicts, Len(tle_data_dicts), lo, hi,
                              min_inclination, max_inclination) :
            hi \in uppers, lo \in lowers}

(***************************************************************************)
(* utils/trajectory.py.  A vector is a triple of rationals; a point in     *)
(* time is a number of seconds, so that launch_date + timedelta(seconds=s) *)
(* is launch_date + s.                                                     *)
(***************************************************************************)
time_step_s == 10

avg_horizontal_speed_km_s == RInt(4)

\* numpy's a - b, a + b, a / k, k * a and np.dot(a, b) on vectors of length 3
VSub(a, b) == <<RSub(a[1], b[1]), RSub(a[2], b[2]), RSub(a[3], b[3])>>

VAdd(a, b) == <<RAdd(a[1], b[1]), RAdd(a[2], b[2]), RAdd(a[3], b[3])>>

VDiv(a, k) == <<RDiv(a[1], k), RDiv(a[2], k), RDiv(a[3], k)>>

VScale(k, a) == <<RMul(k, a[1]), RMul(k, a[2]), RMul(k, a[3])>>

VDot(a, b) == RAdd(RAdd(RMul(a[1], b[1]), RMul(a[2], b[2])), RMul(a[3], b[3]))

VEq(a, b) == REq(a[1], b[1]) /\ REq(a[2], b[2]) /\ REq(a[3], b[3])

\* math.degrees and math.radians
degrees(x) == RDiv(RMul(x, RInt(180)), PI)

radians(x) == RDiv(RMul(x, PI), RInt(180))

\* The great-circle formulas for the two bearings the generator passes.  Due
\* north (0.0) they reduce to lat1 + d/R and lon1; due east (90.0) from a
\* point of the equator, the launch sites of this model, to lat1 and
\* lon1 + d/R.
get_point_at_distance(lat1, lon1, distance_km, bearing_deg) ==
    LET arc_deg == degrees(RDiv(distance_km, R_EARTH_KM))
    IN  IF REq(bearing_deg, RZero) THEN <<RAdd(lat1, arc_deg), lon1>>
        ELSE <<lat1, RAdd(lon1, arc_deg)>>

\* wgs84.latlon(lat, lon, elevation_m = alt * 1000).at(t).position.km of
\* skyfield, which is not part of the repository.  It stands here as the
\* radial, northward and eastward arc coordinates of the point on a sphere
\* at rest, in km to 6 decimals.
wgs84_position_km(lat, lon, alt_km, t) ==
    <<round(RAdd(R_EARTH_KM, alt_km), 6),
      round(RMul(R_EARTH_KM, radians(lat)), 6),
      round(RMul(R_EARTH_KM, radians(lon)), 6)>>

\* range(0, stop, step) for step > 0
range(stop, step) ==
    IF stop <= 0 THEN <<>> ELSE [k \in 1..((stop + step - 1) \div step) |-> step * (k - 1)]

\* range(0, int(ascent_time_s), time_step_s): the last step is left out
geo_times_without_final_step(ascent_time_s) == range(ascent_time_s, time_step_s)

\* the values of time_s in the loop of step 1
geo_times(ascent_time_s) == range(ascent_time_s + time_step_s, time_step_s)

\* one pass of the loop of step 1
geo_point(time_s, launch_lat, launch_lon, target_altitude_km, ascent_time_s, launch_azimuth_deg) ==
    LET total_downrange_distance_km == RMul(avg_horizontal_speed_km_s, RInt(ascent_time_s))
        ratio == IF ascent_time_s > 0 THEN RFrac(time_s, ascent_time_s) ELSE RZero
        progress == IF RLess(ROne, ratio) THEN ROne ELSE ratio
        current == get_point_at_distance(launch_lat, launch_lon,
                       RMul(progress, total_downrange_distance_km), launch_azimuth_deg)
    IN  [time_s |-> time_s, lat |-> current[1], lon |-> current[2],
         alt |-> RMul(progress, target_altitude_km)]

\* the velocity as the plain difference of the positions
velocity_vec_not_per_second(pos1_vec, pos2_vec) == VSub(pos2_vec, pos1_vec)

velocity_vec(pos1_vec, pos2_vec) == VDiv(VSub(pos2_vec, pos1_vec), RInt(time_step_s))

\* geo_points after step 1
geo_points(launch_lat, launch_lon, target_altitude_km, ascent_time_s, launch_azimuth_deg) ==
    LET times == geo_times(ascent_time_s)
    IN  [k \in 1..Len(times) |->
            Calc("geo_point", <<times[k], launch_lat, launch_lon, target_altitude_km,
                                ascent_time_s, launch_azimuth_deg>>)]

\* the position vector of a geo point at its time
pos_vec(p_geo, launch_date) ==
    Calc("wgs84_position_km", <<p_geo.lat, p_geo.lon, p_geo.alt, launch_date + p_geo.time_s>>)

\* step 2: the state vectors of the geo points, the last one with the
\* velocity of the point before it
state_vectors(geo, launch_date) ==
    LET positions == [k \in 1..Len(geo) |-> Calc("pos_vec", <<geo[k], launch_date>>)]
        segments == [i \in 1..(Len(geo) - 1) |->
                        [time_obj |-> launch_date + geo[i].time_s,
                         position |-> positions[i],
                         velocity |-> Calc("velocity_vec",
                                           <<positions[i], positions[i + 1]>>)]]
    IN  IF Len(geo) < 2 THEN <<>>
        ELSE Append(segments, [time_obj |-> launch_date + geo[Len(geo)].time_s,
                               position |-> positions[Len(geo)],
                               velocity |-> segments[Len(segments)].velocity])

generate_simplified_trajectory(launch_lat, launch_lon, target_altitude_km, ascent_time_s, inclination_deg, launch_date) ==
    LET launch_azimuth_deg == IF RLess(inclination_deg, RInt(90)) THEN RInt(90) ELSE RZero
    IN  Calc("state_vectors",
             <<Calc("geo_points", <<launch_lat, launch_lon, target_altitude_km,
                                    ascent_time_s, launch_azimuth_deg>>),
               launch_date>>)

(***************************************************************************)
(* satellite_tracker/calculate_position.py                                 *)
(***************************************************************************)
\* the instant the states of satellite_at are given for, in seconds
TLE_EPOCH == 0

\* satellite.at(t) of skyfield: position in km and velocity in km/s of the
\* satellite of the TLE at t, or the error it raises.  An object moves on a
\* straight line from its state at TLE_EPOCH; the debris has decayed 10 s
\* after it, and propagating it further raises.
satellite_at(line2, t) ==
    LET elapsed == RInt(t - TLE_EPOCH)
        moving(p0, v) == [position |-> VAdd(p0, VScale(elapsed, v)), velocity |-> v]
    IN  CASE line2 = "2 25544  51.6400 15.50" ->
                moving(<<RInt(6671), RFrac(-1125, 10), RInt(60)>>, <<RZero, RFrac(75, 10), RZero>>)
          [] line2 = "2 25545  51.6000 15.52" ->
                IF t >= TLE_EPOCH + 10 THEN [raised |-> "ValueError"]
                ELSE moving(<<RInt(6371), RInt(3), RZero>>, <<RInt(20), RZero, RInt(4)>>)
          [] OTHER -> moving(<<RInt(7000), RInt(500), RInt(500)>>, <<RZero, RZero, RZero>>)

\* the state of the satellite at target_time, or what the function raises
calculate_satellite_position(sat_data, target_time) ==
    IF sat_data.line1 = "" \/ sat_data.line2 = "" THEN [raised |-> "ValueError"]
    ELSE LET satellite == EarthSatellite(sat_data.line1, sat_data.line2)
         IN  IF IsRaised(satellite) THEN [raised |-> "ValueError"]
             ELSE satellite_at(sat_data.line2, target_time)

(***************************************************************************)
(* utils/cpa_calculator.py, which the repository does not hold: the solver *)
(* as section 4.4 of the specification states it.  "Near-zero" relative    *)
(* velocity is taken as zero.                                              *)
(***************************************************************************)
\* the separation taken from the sum of the positions
calculate_cpa_separation_from_sum(pos_a, vel_a, pos_b, vel_b) ==
    LET dp == VAdd(pos_b, pos_a)
        dv == VSub(vel_b, vel_a)
        dv2 == VDot(dv, dv)
        t == IF REq(dv2, RZero) THEN RZero ELSE RNeg(RDiv(VDot(dp, dv), dv2))
        closest == VAdd(dp, VScale(t, dv))
    IN  [time |-> t, distance |-> sqrt(VDot(closest, closest))]

calculate_cpa(pos_a, vel_a, pos_b, vel_b) ==
    LET dp == VSub(pos_b, pos_a)
        dv == VSub(vel_b, vel_a)
        dv2 == VDot(dv, dv)
        t == IF REq(dv2, RZero) THEN RZero ELSE RNeg(RDiv(VDot(dp, dv), dv2))
        closest == VAdd(dp, VScale(t, dv))
    IN  [time |-> t, distance |-> sqrt(VDot(closest, closest))]

(***************************************************************************)
(* satellite_tracker/tle_importer.py.  Time is counted in hours.  A TLE    *)
(* line is written by its first fields; len and the catalog number of a    *)
(* line are what they are for the full line of 69 characters.              *)
(***************************************************************************)
CACHE_DURATION_HOURS == 4

\* the keys of urls, in the order of the loop
CATEGORIES ==
    <<"active", "stations", "rocket-bodies", "cosmos-1408-debris", "iridium-33-debris",
      "cosmos-2251-debris", "fengyun-1c-debris", "dmsp-f13-debris", "breeze-m-debris",
      "debris", "decaying">>

\* datetime.isoformat: the date and the time of day
isoformat(t) == [date |-> t \div 24, time |-> t % 24]

\* datetime.fromisoformat: the hour as value, or the ValueError it raises for
\* any other string
fromisoformat(s) ==
    IF DOMAIN s = {"date", "time"} THEN [value |-> s.date * 24 + s.time]
    ELSE [raised |-> "ValueError"]

\* len(line) for a stripped line of a feed
len(line) == IF line \in {"1 25544", "2 25544"} THEN 7 ELSE 69

\* int(line1[2:7]): the number as value, or the ValueError it raises
int_catalog_number(line1) ==
    CASE line1 = "1 25544U" -> [value |-> 25544]
      [] line1 = "1 25545U" -> [value |-> 25545]
      [] line1 = "1 33591U" -> [value |-> 33591]
      [] line1 = "1 40000U" -> [value |-> 40000]
      [] OTHER -> [raised |-> "ValueError"]

\* unique_objects[sat_num] = obj: a dict keeps the place of a key it holds
dict_set(unique_objects, obj) ==
    IF \E k \in DOMAIN unique_objects : unique_objects[k].number = obj.number
    THEN [k \in DOMAIN unique_objects |->
             IF unique_objects[k].number = obj.number THEN obj ELSE unique_objects[k]]
    ELSE Append(unique_objects, obj)

\* one pass of the loop over the lines of a response, at the 0-based index i
parse_triple(lines, i, unique_objects) ==
    IF i + 3 > Len(lines) THEN unique_objects
    ELSE LET name == lines[i + 1]
             line1 == lines[i + 2]
             line2 == lines[i + 3]
             sat_num == int_catalog_number(line1)
         IN  IF len(line1) # 69 \/ len(line2) # 69 THEN unique_objects
             ELSE IF IsRaised(sat_num) THEN unique_objects
             ELSE dict_set(unique_objects, [name |-> name, number |-> sat_num.value,
                                            line1 |-> line1, line2 |-> line2])

RECURSIVE parse_lines(_, _, _)
\* the loop for i in range(0, len(lines), 3), from i on
parse_lines(lines, i, unique_objects) ==
    IF i >= Len(lines) THEN unique_objects
    ELSE parse_lines(lines, i + 3, parse_triple(lines, i, unique_objects))

\* one pass of the loop over the categories: response is the lines of the
\* answer, or the RequestException of requests.get or raise_for_status
fetch_category(response, unique_objects) ==
    IF IsRaised(response) THEN unique_objects
    ELSE parse_lines(response.lines, 0, unique_objects)

\* the cache taken as fresh for less than CACHE_DURATION_HOURS minutes
is_fresh_for_minutes(now, last_fetched_time) ==
    (now - last_fetched_time) * 60 < CACHE_DURATION_HOURS

\* datetime.utcnow() - last_fetched_time < timedelta(hours=CACHE_DURATION_HOURS)
is_fresh(now, last_fetched_time) == now - last_fetched_time < CACHE_DURATION_HOURS

\* The cache check: the cached list, or no hit.  json.load raises
\* JSONDecodeError for a file that holds no JSON document, a missing key
\* raises KeyError and a malformed timestamp ValueError; all three are
\* caught and lead to the download, as a missing file does.
read_cache(cache_file, now) ==
    IF ~cache_file.exists THEN [hit |-> FALSE]
    ELSE IF "json" \notin DOMAIN cache_file THEN [hit |-> FALSE]
    ELSE LET cache_data == cache_file.json
         IN  IF "timestamp" \notin DOMAIN cache_data THEN [hit |-> FALSE]
             ELSE LET last_fetched_time == fromisoformat(cache_data.timestamp)
                  IN  IF IsRaised(last_fetched_time) THEN [hit |-> FALSE]
                      ELSE IF ~is_fresh(now, last_fetched_time.value) THEN [hit |-> FALSE]
                      ELSE IF "data" \notin DOMAIN cache_data THEN [hit |-> FALSE]
                      ELSE [hit |-> TRUE, data |-> cache_data.data]

\* the cache left as it is when nothing was downloaded
written_cache_unless_empty(cache_file, now, object_list) ==
    IF object_list = <<>> THEN cache_file
    ELSE [exists |-> TRUE, json |-> [timestamp |-> isoformat(now), data |-> object_list]]

\* the file after open(CACHE_FILE, 'w') and json.dump(cache_content, f)
written_cache(cache_file, now, object_list) ==
    [exists |-> TRUE, json |-> [timestamp |-> isoformat(now), data |-> object_list]]

(***************************************************************************)
(* api/routes/risk.py: orbit_collision_risk from the catalog list on       *)
(***************************************************************************)
\* sum(data["count"] for data in congestion_map.values())
total_objects_in_layer(congestion_map) ==
    BagCardinality([k \in {c \in DOMAIN congestion_map : congestion_map[c].count > 0} |->
                       congestion_map[k].count])

\* The set of outcomes of the handler for parsed parameters and the list
\* all_objects of the catalog: the response with the locals it was computed
\* from, or the exception of the congestion analyzer, which the handler does
\* not catch.
orbit_collision_risk(all_objects, height, a_effective, t_years, c_full, d_lost, v_rel) ==
    {IF IsRaised(congestion) THEN congestion
     ELSE [response |->
               calculate_collision_financial_risk(
                   RInt(total_objects_in_layer(congestion.congestion_map)),
                   RAdd(height, RInt(50)), RSub(height, RInt(50)), v_rel,
                   a_effective, t_years, c_full, d_lost),
           congestion_map |-> congestion.congestion_map,
           total_objects_in_layer |-> total_objects_in_layer(congestion.congestion_map)] :
        congestion \in calculate_orbit_congestion_by_altitude(
                           all_objects, RSub(height, RInt(50)), RAdd(height, RInt(50)),
                           RInt(0), RInt(180))}

(***************************************************************************)
(* api/routes/risk.py: takeoff_collision_risk                              *)
(***************************************************************************)
\* int(launch_radius_meters) / 1000.0
launch_corridor_km(launch_radius_meters) == RFrac(launch_radius_meters, 1000)

\* max(0, inclination - inclination_tolerance)
min_inclination(inclination) ==
    LET lowered == RSub(inclination, RInt(15))
    IN  IF RLess(RZero, lowered) THEN lowered ELSE RZero

\* min(180, inclination + inclination_tolerance)
max_inclination(inclination) ==
    LET raised == RAdd(inclination, RInt(15))
    IN  IF RLess(raised, RInt(180)) THEN raised ELSE RInt(180)

\* step 3 of the handler: what the congestion analyzer returns for the
\* altitudes up to target_altitude + altitude_tolerance_km and the
\* inclinations within inclination_tolerance, or what it raises
satellites_in_path(all_objects, target_altitude, inclination) ==
    calculate_orbit_congestion_by_altitude(all_objects, RZero,
                                           RAdd(target_altitude, RInt(50)),
                                           min_inclination(inclination),
                                           max_inclination(inclination))

\* range(len(trajectory)): a segment starts at every point
segment_count_with_last_point(trajectory) == Len(trajectory)

\* the number of values of i in range(len(trajectory) - 1)
segment_count(trajectory) == IF Len(trajectory) = 0 THEN 0 ELSE Len(trajectory) - 1

\* the test of the conjunction without the time window
is_dangerous_at_any_time(t_cpa, dist_cpa, corridor_km) == RLess(dist_cpa, corridor_km)

\* 0 <= t_cpa <= time_step_s and dist_cpa < launch_corridor_km
is_dangerous(t_cpa, dist_cpa, corridor_km) ==
    /\ RLeq(RZero, t_cpa)
    /\ RLeq(t_cpa, RInt(time_step_s))
    /\ RLess(dist_cpa, corridor_km)

\* One pass of the inner loop for segment i (counted from 0): the count and
\* the set of counted pairs after it, with sat_state and cpa_result as the
\* pass computed them (Pending if it did not reach them).
sweep_pair(rocket_segment, i, sat_data, launch_radius_meters, dangerous_conjunctions, processed_satellites) ==
    LET sat_id == sat_data.number
        corridor_km == launch_corridor_km(launch_radius_meters)
        sat_state == calculate_satellite_position(sat_data, rocket_segment.time_obj)
        cpa_result == calculate_cpa(rocket_segment.position, rocket_segment.velocity,
                                    sat_state.position, sat_state.velocity)
        as_before(state, result) ==
            [dangerous_conjunctions |-> dangerous_conjunctions,
             processed_satellites |-> processed_satellites,
             sat_state |-> state, cpa_result |-> result]
    IN  IF <<sat_id, i>> \in processed_satellites THEN as_before(Pending, Pending)
        ELSE IF IsRaised(sat_state) THEN as_before(sat_state, Pending)
        ELSE IF is_dangerous(cpa_result.time, cpa_result.distance, corridor_km)
             THEN [dangerous_conjunctions |-> dangerous_conjunctions + 1,
                   processed_satellites |-> processed_satellites \cup {<<sat_id, i>>},
                   sat_state |-> sat_state, cpa_result |-> cpa_result]
        ELSE as_before(sat_state, cpa_result)

\* step 5 of the handler: the report of calculate_launch_collision_risk for
\* the counted conjunctions and the corridor in metres, or what it raises
launch_risk_of_sweep(dangerous_conjunctions, launch_radius_meters, a_rocket, c_total_loss) ==
    calculate_launch_collision_risk(
        dangerous_conjunctions,
        RMul(launch_corridor_km(launch_radius_meters), RInt(1000)),
        a_rocket, c_total_loss)

(***************************************************************************)
(* The operator named op applied to the tuple x of its arguments.  The     *)
(* test of x evaluates the arguments before the operator is entered.       *)
(***************************************************************************)
Calc(op, x) ==
    IF x = <<>> THEN x ELSE
    CASE op = "NTrim" -> NTrimImpl(x[1])
      [] op = "NAdd" -> NAddImpl(x[1], x[2])
      [] op = "NCmp" -> NCmpImpl(x[1], x[2])
      [] op = "NSub" -> NSubImpl(x[1], x[2])
      [] op = "NMulSmall" -> NMulSmallImpl(x[1], x[2])
      [] op = "NMul" -> NMulImpl(x[1], x[2])
      [] op = "NPow" -> NPowImpl(x[1], x[2])
      [] op = "NDigit" -> NDigitImpl(x[1], x[2])
      [] op = "NDivMod" -> NDivModImpl(x[1], x[2])
      [] op = "NSqrtDigit" -> NSqrtDigitImpl(x[1], x[2], x[3])
      [] op = "NSqrt" -> NSqrtImpl(x[1])
      [] op = "RAdd" -> RAddImpl(x[1], x[2])
      [] op = "RMul" -> RMulImpl(x[1], x[2])
      [] op = "RDiv" -> RDivImpl(x[1], x[2])
      [] op = "RCmp" -> RCmpImpl(x[1], x[2])
      [] op = "RPow" -> RPowImpl(x[1], x[2])
      [] op = "round" -> roundImpl(x[1], x[2])
      [] op = "sqrt" -> sqrtImpl(x[1])
      [] op = "exp" -> expImpl(x[1])
      [] op = "FloatSquare" -> FloatSquareImpl(x[1])
      [] op = "AtLeastPow2" -> AtLeastPow2Impl(x[1], x[2])
      [] op = "PowOverflows" -> PowOverflowsImpl(x[1], x[2])
      [] op = "assign_risk_class" -> assign_risk_class(x[1])
      [] op = "calculate_collision_financial_risk" ->
            calculate_collision_financial_risk(x[1], x[2], x[3], x[4], x[5], x[6], x[7], x[8])
      [] op = "p_one_conjunction" -> p_one_conjunction(x[1], x[2], x[3])
      [] op = "calculate_launch_collision_risk" ->
            calculate_launch_collision_risk(x[1], x[2], x[3], x[4])
      [] op = "orbit_collision_risk" ->
            orbit_collision_risk(x[1], x[2], x[3], x[4], x[5], x[6], x[7])
      [] op = "altitude_to_mean_motion" -> altitude_to_mean_motion(x[1])
      [] op = "loop_body" -> loop_body(x[1], x[2], x[3], x[4], x[5], x[6], x[7])
      [] op = "geo_point" -> geo_point(x[1], x[2], x[3], x[4], x[5], x[6])
      [] op = "geo_points" -> geo_points(x[1], x[2], x[3], x[4], x[5])
      [] op = "wgs84_position_km" -> wgs84_position_km(x[1], x[2], x[3], x[4])
      [] op = "pos_vec" -> pos_vec(x[1], x[2])
      [] op = "velocity_vec" -> velocity_vec(x[1], x[2])
      [] op = "state_vectors" -> state_vectors(x[1], x[2])
      [] op = "generate_simplified_trajectory" ->
            generate_simplified_trajectory(x[1], x[2], x[3], x[4], x[5], x[6])
      [] op = "satellites_in_path" -> satellites_in_path(x[1], x[2], x[3])
      [] op = "calculate_satellite_position" -> calculate_satellite_position(x[1], x[2])
      [] op = "calculate_cpa" -> calculate_cpa(x[1], x[2], x[3], x[4])
      [] op = "sweep_pair" -> sweep_pair(x[1], x[2], x[3], x[4], x[5], x[6])
      [] op = "launch_risk_of_sweep" -> launch_risk_of_sweep(x[1], x[2], x[3], x[4])

(***************************************************************************)
(* Bounds and input sets of the model.                                     *)
(***************************************************************************)
\* conjunction counts 0..MaxConj are tried with every radius and area
MaxConj == 3

\* the conjunction count of a long sweep
BigConj == 1000

\* a decimal literal: m / 10^e
Dec(m, e) == RFrac(m, 10 ^ e)

Thresholds == {Dec(1, e) : e \in 2..7}

\* probabilities on, just above and just below every class bound, and beyond
ProbInputs ==
    Thresholds
    \cup {RMul(t, Dec(1001, 3)) : t \in Thresholds}
    \cup {RMul(t, Dec(999, 3)) : t \in Thresholds}
    \cup {RZero, ROne, RInt(3), RInt(-3), Dec(5, 1), Dec(5, 9)}

ShellAltitudes ==
    {<<RInt(600), RInt(500)>>, <<RInt(500), RInt(500)>>, <<RInt(500), RInt(600)>>,
     <<RInt(50), RInt(-50)>>, <<RInt(-7000), RInt(-6900)>>, <<RInt(-6900), RInt(-7000)>>}

ShellCounts == {RInt(0), RInt(1), RInt(100), RInt(30000)}

ShellVelocities == {RZero, Dec(125, 1)}

ShellAreas == {Dec(15, 1)}

ShellYears == {RInt(1), RInt(5)}

\* costs; 0.125 times a probability of 1 is a tie of round(x, 2)
Costs == {RZero, Dec(125, 3), RInt(100), RInt(50000000)}

LostRevenues == {RZero, RInt(100000000)}

\* radii in metres: not positive, so small that the square underflows, small,
\* usual, so large that the square overflows
LaunchRadii == {RInt(-1), RZero, RMk(FALSE, <<1>>, NPow(<<10>>, 200)), RInt(1), RInt(2),
                RInt(25000), RMk(FALSE, NPow(<<10>>, 200), <<1>>)}

\* areas in square metres; PI is the cross-section of the corridor of radius 1
LaunchAreas == {RZero, RInt(1), PI, RInt(10), Dec(158, 1)}

(***************************************************************************)
(* Inputs of the congestion analyzer.                                      *)
(***************************************************************************)
\* the longest list of tracked objects
MaxObjects == 3

\* Tracked objects: two of one cell, one on the ties of both roundings, one
\* on the mean motion of the 500 km bound and on the inclination bound 45,
\* one without its first TLE line, one whose lines skyfield rejects.
Catalog ==
    {[name |-> "ISS (ZARYA)", line1 |-> "1 25544U", line2 |-> "2 25544  51.6400 15.50"],
     [name |-> "ZARYA DEB", line1 |-> "1 25545U", line2 |-> "2 25545  51.6000 15.52"],
     [name |-> "NOAA 19", line1 |-> "1 33591U", line2 |-> "2 33591  98.5000 14.25"],
     [name |-> "EDGE", line1 |-> "1 40000U", line2 |-> "2 40000  45.0000 at 500 km"],
     [name |-> "NO LINE", line1 |-> "", line2 |-> "2 25544  51.6400 15.50"],
     [name |-> "BAD TLE", line1 |-> "1 99999U", line2 |-> "2 99999 malformed"]}

\* (min_altitude_km, max_altitude_km): ordered, reversed, and with a negative
\* or an overflowing bound; (-20, 80) is the range of orbit_risk at height 30
AltitudeRanges ==
    {<<RInt(300), RInt(900)>>, <<RInt(500), RInt(900)>>, <<RInt(300), RInt(500)>>,
     <<RInt(900), RInt(300)>>, <<RInt(300), RInt(-10)>>, <<RInt(-10), RInt(-20)>>,
     <<RInt(-20), RInt(80)>>,
     <<RMk(FALSE, NPow(<<10>>, 120), <<1>>), RInt(300)>>}

\* (min_inclination, max_inclination)
InclinationRanges == {<<RInt(0), RInt(180)>>, <<RInt(45), RInt(60)>>}

(***************************************************************************)
(* Inputs of the takeoff sweep.                                            *)
(***************************************************************************)
\* the longest list of tracked objects of a takeoff request
MaxTracked == 2

\* objects as get_all_trackable_objects lists them
TrackedObjects ==
    {[name |-> "ISS (ZARYA)", number |-> 25544, line1 |-> "1 25544U",
      line2 |-> "2 25544  51.6400 15.50"],
     [name |-> "ZARYA DEB", number |-> 25545, line1 |-> "1 25545U",
      line2 |-> "2 25545  51.6000 15.52"],
     [name |-> "NOAA 19", number |-> 33591, line1 |-> "1 33591U",
      line2 |-> "2 33591  98.5000 14.25"],
     [name |-> "EDGE", number |-> 40000, line1 |-> "1 40000U",
      line2 |-> "2 40000  45.0000 at 500 km"]}

\* lists of up to MaxTracked different objects
TrackedLists ==
    {l \in UNION {[1..n -> TrackedObjects] : n \in 0..MaxTracked} :
        \A a, b \in DOMAIN l : a # b => l[a] # l[b]}

\* T_seconds of a request: not positive, shorter than a step, whole steps
AscentTimes == {-10, 0, 1, 25, 30}

\* Requests from the equator at the TLE epoch to 600 km.  Every list is
\* swept with the ascent of 30 s to the inclination 51; the other ascents
\* and the polar inclination are swept with no object and with two.
TakeoffRequests ==
    {r \in [launch_lat : {RZero}, launch_lon : {RZero}, target_altitude : {RInt(600)},
            ascent_time_s : AscentTimes, inclination : {RInt(51), RInt(98)},
            launch_date : {TLE_EPOCH}, a_rocket : {RInt(10)}, c_total_loss : {RInt(100)},
            launch_radius_meters : {25000, 3000}, all_objects : TrackedLists] :
        \/ r.ascent_time_s = 30 /\ REq(r.inclination, RInt(51))
        \/ r.all_objects = <<>>
        \/ /\ Len(r.all_objects) = 2
           /\ r.all_objects[1].name = "ISS (ZARYA)"
           /\ r.all_objects[2].name = "ZARYA DEB"}

(***************************************************************************)
(* Inputs of the importer.                                                 *)
(***************************************************************************)
\* the last hour of the clock
MaxClock == 6

\* What a category answers when its request succeeds.  "active" lists the
\* station, an entry with short lines, one whose catalog number is no number
\* and the name of an entry whose lines are missing; "stations" lists the
\* station under another name and a piece of debris; the others are empty.
ResponseLines(category) ==
    CASE category = "active" ->
            <<"ISS (ZARYA)", "1 25544U", "2 25544  51.6400 15.50",
              "SHORT", "1 25544", "2 25544",
              "NO NUMBER", "1 ABCDEU", "2 ABCDE  51.6400 15.50",
              "DANGLING">>
      [] category = "stations" ->
            <<"ISS", "1 25544U", "2 25544  51.6400 15.50",
              "ZARYA DEB", "1 25545U", "2 25545  51.6000 15.52">>
      [] OTHER -> <<>>

\* the outcomes of the request of a category
Responses(category) ==
    {[raised |-> "RequestException"], [lines |-> ResponseLines(category)]}

\* files json.load or the reading of the keys fails on: no JSON document,
\* no timestamp, a timestamp that is no ISO date, no data
DamagedFiles ==
    {[exists |-> TRUE, text |-> "{\"timestamp\": "],
     [exists |-> TRUE, json |-> [data |-> <<>>]],
     [exists |-> TRUE, json |-> [timestamp |-> [text |-> "yesterday"], data |-> <<>>]]}
    \cup {[exists |-> TRUE, json |-> [timestamp |-> isoformat(t)]] : t \in 0..MaxClock}

(***************************************************************************)
(* State.  call is one call of a function of utils/risk_calculator.py: its *)
(* arguments and, once the function has run, what it returned or raised.   *)
(* The other variables are one invocation of                               *)
(* calculate_orbit_congestion_by_altitude: its altitude and inclination    *)
(* arguments args, the objects tle_data_dicts of its list argument that    *)
(* the loop has read so far, its locals, and its position pc ("idle" when  *)
(* it is not invoked).                                                     *)
(***************************************************************************)
VARIABLES call, pc, args, tle_data_dicts, min_mean_motion_filter, max_mean_motion_filter, congestion_map, filtered_satellites

VARIABLES takeoff_pc, request, trajectory, all_satellites_in_path, i_segment, sat_cursor, dangerous_conjunctions, processed_satellites, sat_state, cpa_result, evaluated_pairs, takeoff_risk_data

VARIABLES now, cache_file, importer_pc, category_index, unique_objects, all_failed, result, last_refresh, damaged_since

importerVars == <<now, cache_file, importer_pc, category_index, unique_objects, all_failed, result, last_refresh, damaged_since>>

takeoffVars == <<takeoff_pc, request, trajectory, all_satellites_in_path, i_segment, sat_cursor, dangerous_conjunctions, processed_satellites, sat_state, cpa_result, evaluated_pairs, takeoff_risk_data>>

vars == <<call, pc, args, tle_data_dicts, min_mean_motion_filter, max_mean_motion_filter, congestion_map, filtered_satellites, takeoffVars, importerVars>>

riskVars == <<call>>

congestionVars == <<pc, args, tle_data_dicts, min_mean_motion_filter, max_mean_motion_filter, congestion_map, filtered_satellites>>

NoCall == [fn |-> "none", result |-> Pending]

NoArgs == [min_altitude_km |-> RZero, max_altitude_km |-> RZero, min_inclination |-> RZero, max_inclination |-> RZero]

\* the locals of calculate_orbit_congestion_by_altitude before it has run
CongestionLocalsUnset ==
    /\ min_mean_motion_filter = RZero
    /\ max_mean_motion_filter = RZero
    /\ congestion_map = <<>>
    /\ filtered_satellites = <<>>
    /\ tle_data_dicts = <<>>

NoRequest == [launch_lat |-> RZero]

\* the locals of takeoff_collision_risk before the handler has run
TakeoffLocalsUnset ==
    /\ trajectory = <<>>
    /\ all_satellites_in_path = <<>>
    /\ i_segment = 0
    /\ sat_cursor = 0
    /\ dangerous_conjunctions = 0
    /\ processed_satellites = {}
    /\ sat_state = Pending
    /\ cpa_result = Pending
    /\ evaluated_pairs = <<>>
    /\ takeoff_risk_data = Pending

\* no takeoff request is being served
TakeoffIdle ==
    /\ takeoff_pc = "idle"
    /\ request = NoRequest
    /\ TakeoffLocalsUnset

\* the cache file does not exist
Missing == [exists |-> FALSE]

NoRefresh == [written |-> -1, all_failed |-> FALSE]

\* the locals of get_all_trackable_objects while it does not run
ImporterLocalsUnset ==
    /\ category_index = 0
    /\ unique_objects = <<>>
    /\ all_failed = FALSE

\* get_all_trackable_objects has not been called
ImporterIdle ==
    /\ now = 0
    /\ cache_file = Missing
    /\ importer_pc = "idle"
    /\ ImporterLocalsUnset
    /\ result = Pending
    /\ last_refresh = NoRefresh
    /\ damaged_since = FALSE

AssignCalls ==
    {[fn |-> "assign_risk_class", collision_probability |-> p, result |-> Pending] :
        p \in ProbInputs}

ShellCalls ==
    {[fn |-> "calculate_collision_financial_risk",
      N_objects |-> N, H_upper |-> H[1], H_lower |-> H[2], V_rel |-> V,
      A_effective |-> A, T_years |-> T, C_full |-> C, D_lost |-> D, result |-> Pending] :
        N \in ShellCounts, H \in ShellAltitudes, V \in ShellVelocities,
        A \in ShellAreas, T \in ShellYears, C \in Costs, D \in LostRevenues}

\* The exact power of a long sweep is out of reach of the model: BigConj is
\* tried only with the radii and areas for which "**" is certain to overflow.
LaunchCalls ==
    {[fn |-> "calculate_launch_collision_risk",
      N_conjunctions |-> N, launch_cylinder_radius_m |-> r,
      A_rocket |-> A, C_total_loss |-> C, result |-> Pending] :
        N \in {n \in 0..MaxConj \cup {BigConj} : n >= 0}, r \in LaunchRadii,
        A \in LaunchAreas, C \in Costs}

LaunchCallInReach(c) ==
    \/ c.N_conjunctions <= MaxConj
    \/ /\ RLess(RZero, c.launch_cylinder_radius_m)
       /\ Calc("PowOverflows", <<c.launch_cylinder_radius_m, 2>>) = {FALSE}
       /\ Calc("PowOverflows",
               <<RSub(ROne, Calc("p_one_conjunction",
                                 <<c.N_conjunctions, c.launch_cylinder_radius_m,
                                   c.A_rocket>>)),
                 c.N_conjunctions>>) = {TRUE}

\* orbit_risk requests: catalog lists (empty, one object, three with a
\* malformed one) and heights in km, one of them below 50
OrbitRiskCalls ==
    {[fn |-> "orbit_collision_risk", all_objects |-> l, height |-> h,
      a_effective |-> Dec(15, 1), t_years |-> RInt(5), c_full |-> C, d_lost |-> D,
      v_rel |-> Dec(125, 1), result |-> Pending] :
        l \in {<<>>} \cup {o \in [1..1 -> Catalog] : o[1].name = "ISS (ZARYA)"}
              \cup {o \in [1..3 -> Catalog] :
                       /\ o[1].name = "ISS (ZARYA)"
                       /\ o[2].name = "BAD TLE"
                       /\ o[3].name = "ZARYA DEB"},
        h \in {RInt(30), RInt(400), RInt(550)},
        C \in {RInt(100), RInt(50000000)}, D \in LostRevenues}

CongestionCalls ==
    {[min_altitude_km |-> h[1], max_altitude_km |-> h[2],
      min_inclination |-> i[1], max_inclination |-> i[2]] :
        h \in AltitudeRanges, i \in InclinationRanges}

(***************************************************************************)
(* The risk calculator: one call of one of its three functions.            *)
(***************************************************************************)
Init ==
    /\ call \in AssignCalls \cup ShellCalls \cup OrbitRiskCalls
                \cup {c \in LaunchCalls : LaunchCallInReach(c)}
    /\ pc = "idle"
    /\ args = NoArgs
    /\ CongestionLocalsUnset
    /\ TakeoffIdle
    /\ ImporterIdle

CallAssignRiskClass ==
    /\ call.fn = "assign_risk_class"
    /\ IsPending(call.result)
    /\ call' = [call EXCEPT !.result =
                    [risk_class |-> Calc("assign_risk_class",
                                         <<call.collision_probability>>)]]
    /\ UNCHANGED <<congestionVars, takeoffVars, importerVars>>

CallShellRisk ==
    /\ call.fn = "calculate_collision_financial_risk"
    /\ IsPending(call.result)
    /\ call' = [call EXCEPT !.result =
                    Calc("calculate_collision_financial_risk",
                         <<call.N_objects, call.H_upper, call.H_lower, call.V_rel,
                           call.A_effective, call.T_years, call.C_full, call.D_lost>>)]
    /\ UNCHANGED <<congestionVars, takeoffVars, importerVars>>

CallLaunchRisk ==
    /\ call.fn = "calculate_launch_collision_risk"
    /\ IsPending(call.result)
    /\ \E res \in Calc("calculate_launch_collision_risk",
                      <<call.N_conjunctions, call.launch_cylinder_radius_m,
                        call.A_rocket, call.C_total_loss>>) :
          call' = [call EXCEPT !.result = res]
    /\ UNCHANGED <<congestionVars, takeoffVars, importerVars>>

\* orbit_collision_risk from the list of the catalog to its response
CallOrbitRisk ==
    /\ call.fn = "orbit_collision_risk"
    /\ IsPending(call.result)
    /\ \E res \in Calc("orbit_collision_risk",
                      <<call.all_objects, call.height, call.a_effective, call.t_years,
                        call.c_full, call.d_lost, call.v_rel>>) :
          call' = [call EXCEPT !.result = res]
    /\ UNCHANGED <<congestionVars, takeoffVars, importerVars>>

Next ==
    \/ CallAssignRiskClass
    \/ CallShellRisk
    \/ CallLaunchRisk
    \/ CallOrbitRisk

Spec == Init /\ [][Next]_vars

(***************************************************************************)
(* The congestion analyzer: one invocation of                              *)
(* calculate_orbit_congestion_by_altitude, an action per step.             *)
(***************************************************************************)
CongestionInit ==
    /\ call = NoCall
    /\ pc = "called"
    /\ args \in CongestionCalls
    /\ CongestionLocalsUnset
    /\ TakeoffIdle
    /\ ImporterIdle

\* The altitude bounds become the mean-motion bounds, the lower altitude the
\* upper mean motion; an OverflowError of the conversion leaves the function.
ConvertAltitudeBounds ==
    /\ pc = "called"
    /\ \E hi \in Calc("altitude_to_mean_motion", <<args.min_altitude_km>>) :
          IF IsRaised(hi)
          THEN /\ pc' = "raised"
               /\ UNCHANGED <<min_mean_motion_filter, max_mean_motion_filter>>
          ELSE \E lo \in Calc("altitude_to_mean_motion", <<args.max_altitude_km>>) :
                  IF IsRaised(lo)
                  THEN /\ pc' = "raised"
                       /\ UNCHANGED <<min_mean_motion_filter, max_mean_motion_filter>>
                  ELSE /\ pc' = "loop"
                       /\ max_mean_motion_filter' = hi
                       /\ min_mean_motion_filter' = lo
    /\ congestion_map' = <<>>
    /\ filtered_satellites' = <<>>
    /\ UNCHANGED <<call, args, tle_data_dicts, takeoffVars, importerVars>>

\* One iteration of the loop over the list argument, which holds up to
\* MaxObjects different objects of the catalog in any order: the next object
\* of the list is read and handled.
ProcessSatData ==
    /\ pc = "loop"
    /\ Len(tle_data_dicts) < MaxObjects
    /\ \E sat_data \in Catalog :
          /\ \A i \in DOMAIN tle_data_dicts : tle_data_dicts[i] # sat_data
          /\ tle_data_dicts' = Append(tle_data_dicts, sat_data)
          /\ LET after == Calc("loop_body",
                               <<sat_data, congestion_map, filtered_satellites,
                                 min_mean_motion_filter, max_mean_motion_filter,
                                 args.min_inclination, args.max_inclination>>)
             IN  /\ congestion_map' = after.congestion_map
                 /\ filtered_satellites' = after.filtered_satellites
    /\ UNCHANGED <<call, pc, args, min_mean_motion_filter, max_mean_motion_filter, takeoffVars, importerVars>>

\* the list is exhausted: congestion_map and filtered_satellites are returned
ReturnCongestion ==
    /\ pc = "loop"
    /\ pc' = "returned"
    /\ UNCHANGED <<call, args, tle_data_dicts, min_mean_motion_filter,
                   max_mean_motion_filter, congestion_map, filtered_satellites, takeoffVars, importerVars>>

CongestionNext ==
    \/ ConvertAltitudeBounds
    \/ ProcessSatData
    \/ ReturnCongestion

CongestionSpec == CongestionInit /\ [][CongestionNext]_vars

(***************************************************************************)
(* The takeoff sweep: one request of takeoff_collision_risk from its       *)
(* parsed arguments on, an action per step of the handler.  i_segment is   *)
(* the loop variable i and sat_cursor the place in all_satellites_in_path  *)
(* of the object the inner loop handles next; evaluated_pairs lists the    *)
(* passes of the inner loop so far, each as (i, place in the list).        *)
(***************************************************************************)
TakeoffInit ==
    /\ call = NoCall
    /\ pc = "idle"
    /\ args = NoArgs
    /\ CongestionLocalsUnset
    /\ takeoff_pc = "called"
    /\ request \in TakeoffRequests
    /\ TakeoffLocalsUnset
    /\ ImporterIdle

\* step 2 of the handler
GenerateTrajectory ==
    /\ takeoff_pc = "called"
    /\ trajectory' = Calc("generate_simplified_trajectory",
                          <<request.launch_lat, request.launch_lon, request.target_altitude,
                            request.ascent_time_s, request.inclination, request.launch_date>>)
    /\ takeoff_pc' = "filter"
    /\ UNCHANGED <<riskVars, congestionVars, importerVars, request, all_satellites_in_path, i_segment,
                   sat_cursor, dangerous_conjunctions, processed_satellites,
                   sat_state, cpa_result, evaluated_pairs, takeoff_risk_data>>

\* step 3: the objects in the altitude and inclination window of the ascent,
\* and the initialisation of the sweep
FilterSatellites ==
    /\ takeoff_pc = "filter"
    /\ \E found \in Calc("satellites_in_path",
                        <<request.all_objects, request.target_altitude,
                          request.inclination>>) :
          IF IsRaised(found)
          THEN /\ takeoff_pc' = "raised"
               /\ UNCHANGED all_satellites_in_path
          ELSE /\ takeoff_pc' = "segment"
               /\ all_satellites_in_path' = found.filtered_satellites
    /\ dangerous_conjunctions' = 0
    /\ processed_satellites' = {}
    /\ i_segment' = 0
    /\ UNCHANGED <<riskVars, congestionVars, importerVars, request, trajectory, sat_cursor,
                   sat_state, cpa_result, evaluated_pairs, takeoff_risk_data>>

\* the outer loop takes the next segment start
StartSegment ==
    /\ takeoff_pc = "segment"
    /\ i_segment < segment_count(trajectory)
    /\ takeoff_pc' = "pairs"
    /\ sat_cursor' = 1
    /\ UNCHANGED <<riskVars, congestionVars, importerVars, request, trajectory, all_satellites_in_path,
                   i_segment, dangerous_conjunctions, processed_satellites,
                   sat_state, cpa_result, evaluated_pairs, takeoff_risk_data>>

\* one pass of the inner loop
SweepPair ==
    /\ takeoff_pc = "pairs"
    /\ sat_cursor <= Len(all_satellites_in_path)
    /\ LET after == Calc("sweep_pair",
                         <<trajectory[i_segment + 1], i_segment,
                           all_satellites_in_path[sat_cursor],
                           request.launch_radius_meters,
                           dangerous_conjunctions, processed_satellites>>)
       IN  /\ dangerous_conjunctions' = after.dangerous_conjunctions
           /\ processed_satellites' = after.processed_satellites
           /\ sat_state' = after.sat_state
           /\ cpa_result' = after.cpa_result
    /\ evaluated_pairs' = Append(evaluated_pairs, <<i_segment, sat_cursor>>)
    /\ sat_cursor' = sat_cursor + 1
    /\ UNCHANGED <<riskVars, congestionVars, importerVars, takeoff_pc, request, trajectory,
                   all_satellites_in_path, i_segment, takeoff_risk_data>>

\* the inner loop is exhausted
EndSegment ==
    /\ takeoff_pc = "pairs"
    /\ sat_cursor > Len(all_satellites_in_path)
    /\ i_segment' = i_segment + 1
    /\ takeoff_pc' = "segment"
    /\ UNCHANGED <<riskVars, congestionVars, importerVars, request, trajectory, all_satellites_in_path,
                   sat_cursor, dangerous_conjunctions, processed_satellites,
                   sat_state, cpa_result, evaluated_pairs, takeoff_risk_data>>

\* step 5, after the last segment: the risk of the counted conjunctions
CalculateLaunchRisk ==
    /\ takeoff_pc = "segment"
    /\ i_segment >= segment_count(trajectory)
    /\ \E res \in Calc("launch_risk_of_sweep",
                      <<dangerous_conjunctions, request.launch_radius_meters,
                        request.a_rocket, request.c_total_loss>>) :
          takeoff_risk_data' = res
    /\ takeoff_pc' = "done"
    /\ UNCHANGED <<riskVars, congestionVars, importerVars, request, trajectory, all_satellites_in_path,
                   i_segment, sat_cursor, dangerous_conjunctions, processed_satellites,
                   sat_state, cpa_result, evaluated_pairs>>

TakeoffNext ==
    \/ GenerateTrajectory
    \/ FilterSatellites
    \/ StartSegment
    \/ SweepPair
    \/ EndSegment
    \/ CalculateLaunchRisk

TakeoffSpec == TakeoffInit /\ [][TakeoffNext]_vars

(***************************************************************************)
(* The importer: calls of get_all_trackable_objects one after the other,   *)
(* while the clock now advances and the cache file may be removed or       *)
(* damaged from outside between the calls.  result is what the last call   *)
(* returned, with the number of requests it sent and whether it wrote the  *)
(* cache; last_refresh is the hour the cache was last written by a call    *)
(* and damaged_since whether the file was touched from outside since.      *)
(***************************************************************************)
ImporterInit ==
    /\ call = NoCall
    /\ pc = "idle"
    /\ args = NoArgs
    /\ CongestionLocalsUnset
    /\ TakeoffIdle
    /\ ImporterIdle

\* an hour passes
Tick ==
    /\ now < MaxClock
    /\ now' = now + 1
    /\ UNCHANGED <<riskVars, congestionVars, takeoffVars, cache_file, importer_pc,
                   category_index, unique_objects, all_failed, result, last_refresh,
                   damaged_since>>

\* the cache file is removed or overwritten from outside
DamageCache ==
    /\ importer_pc = "idle"
    /\ cache_file' \in {Missing} \cup DamagedFiles
    /\ cache_file' # cache_file
    /\ damaged_since' = TRUE
    /\ UNCHANGED <<riskVars, congestionVars, takeoffVars, now, importer_pc, category_index,
                   unique_objects, all_failed, result, last_refresh>>

\* a call that finds the cache fresh returns its list
CacheHit ==
    /\ importer_pc = "idle"
    /\ read_cache(cache_file, now).hit
    /\ result' = [returned |-> read_cache(cache_file, now).data, requests |-> 0,
                  wrote |-> FALSE]
    /\ UNCHANGED <<riskVars, congestionVars, takeoffVars, now, cache_file, importer_pc,
                   category_index, unique_objects, all_failed, last_refresh, damaged_since>>

\* a call that finds no fresh cache starts the download
CacheMiss ==
    /\ importer_pc = "idle"
    /\ ~read_cache(cache_file, now).hit
    /\ importer_pc' = "fetch"
    /\ category_index' = 1
    /\ unique_objects' = <<>>
    /\ all_failed' = TRUE
    /\ result' = Pending
    /\ UNCHANGED <<riskVars, congestionVars, takeoffVars, now, cache_file, last_refresh,
                   damaged_since>>

\* one pass of the loop over the categories
RequestCategory ==
    /\ importer_pc = "fetch"
    /\ category_index <= Len(CATEGORIES)
    /\ \E response \in Responses(CATEGORIES[category_index]) :
          /\ unique_objects' = fetch_category(response, unique_objects)
          /\ all_failed' = (all_failed /\ IsRaised(response))
    /\ category_index' = category_index + 1
    /\ UNCHANGED <<riskVars, congestionVars, takeoffVars, now, cache_file, importer_pc,
                   result, last_refresh, damaged_since>>

\* the list is written to the cache and returned
SaveAndReturn ==
    /\ importer_pc = "fetch"
    /\ category_index > Len(CATEGORIES)
    /\ cache_file' = written_cache(cache_file, now, unique_objects)
    /\ result' = [returned |-> unique_objects, requests |-> Len(CATEGORIES), wrote |-> TRUE]
    /\ last_refresh' = [written |-> now, all_failed |-> all_failed]
    /\ damaged_since' = FALSE
    /\ importer_pc' = "idle"
    /\ category_index' = 0
    /\ unique_objects' = <<>>
    /\ all_failed' = FALSE
    /\ UNCHANGED <<riskVars, congestionVars, takeoffVars, now>>

ImporterNext ==
    \/ Tick
    \/ DamageCache
    \/ CacheHit
    \/ CacheMiss
    \/ RequestCategory
    \/ SaveAndReturn

ImporterSpec == ImporterInit /\ [][ImporterNext]_vars

(***************************************************************************)
(* Properties of the risk calculator.                                      *)
(***************************************************************************)
ShellDone == call.fn = "calculate_collision_financial_risk" /\ ~IsPending(call.result)

LaunchDone == call.fn = "calculate_launch_collision_risk" /\ ~IsPending(call.result)

AssignDone == call.fn = "assign_risk_class" /\ ~IsPending(call.result)

ReportDone == (ShellDone \/ LaunchDone) /\ IsReport(call.result)

NonNegative(u) == RLeq(RZero, u)

\* count, velocity, areas, duration and costs of the call are not negative
InputsNonNegative ==
    IF call.fn = "calculate_collision_financial_risk"
    THEN \A u \in {call.N_objects, call.V_rel, call.A_effective, call.T_years,
                   call.C_full, call.D_lost} : NonNegative(u)
    ELSE /\ call.N_conjunctions >= 0
         /\ NonNegative(call.A_rocket)
         /\ NonNegative(call.C_total_loss)

\* the cost a report's probability is multiplied with
TotalCost ==
    IF call.fn = "calculate_collision_financial_risk"
    THEN RAdd(call.C_full, call.D_lost)
    ELSE call.C_total_loss

\* C1: every report returned by either risk model for non-negative inputs has
\* a collision_risk in [0, 1].
C1_CollisionRiskIsProbability ==
    ReportDone /\ InputsNonNegative =>
        /\ RLeq(RZero, call.result.collision_risk)
        /\ RLeq(call.result.collision_risk, ROne)

\* the rocket's area covers the whole corridor cross-section pi * r^2
RocketCoversCorridor ==
    /\ RLess(RZero, call.launch_cylinder_radius_m)
    /\ RLeq(RMul(PI, RMul(call.launch_cylinder_radius_m, call.launch_cylinder_radius_m)),
            call.A_rocket)

\* C2: in the launch model, whenever A_rocket >= pi * r^2 and there is at
\* least one conjunction, the per-conjunction probability is 1.0 and the
\* returned collision_risk is exactly 1.0.
C2_ProbabilityCappedAtOne ==
    LaunchDone /\ call.N_conjunctions >= 1 /\ RocketCoversCorridor =>
        /\ REq(p_one_conjunction(call.N_conjunctions, call.launch_cylinder_radius_m,
                                 call.A_rocket), ROne)
        /\ IsReport(call.result)
        /\ REq(call.result.collision_risk, ROne)

\* the classes from the highest risk down, with the exponent e of their bound 10^-e
ClassOrder ==
    <<[class |-> "F (Extremely High)", e |-> 2], [class |-> "E (Very High)", e |-> 3],
      [class |-> "D (High)", e |-> 4], [class |-> "C (Moderate)", e |-> 5],
      [class |-> "B (Low)", e |-> 6], [class |-> "A (Very Low)", e |-> 7]>>

\* the first class in ClassOrder whose bound is strictly below p, else A+
FirstClassBelow(p) ==
    LET below == {i \in 1..Len(ClassOrder) : RLess(Dec(1, ClassOrder[i].e), p)}
    IN  IF below = {} THEN "A+ (Minimal)"
        ELSE ClassOrder[CHOOSE i \in below : \A j \in below : i <= j].class

\* C3: assign_risk_class maps a probability to the first class, in the order
\* F, E, D, C, B, A, whose bound (1e-2 .. 1e-7) is strictly less than it, and
\* to A+ when none is: a probability equal to a bound gets the next lower class.
C3_ClassIsFirstBoundStrictlyBelow ==
    AssignDone => call.result.risk_class = FirstClassBelow(call.collision_probability)

\* a probability equal to the bound 1e-2 was classified E, one equal to 1e-7, A+
C3_Witness ==
    /\ AssignDone
    /\ \/ REq(call.collision_probability, Dec(1, 2))
          /\ call.result.risk_class = "E (Very High)"
       \/ REq(call.collision_probability, Dec(1, 7))
          /\ call.result.risk_class = "A+ (Minimal)"

\* the launch of the worked example: one conjunction, corridor radius 25000 m,
\* rocket area 15.8 m^2
ExampleLaunch ==
    /\ LaunchDone
    /\ call.N_conjunctions = 1
    /\ REq(call.launch_cylinder_radius_m, RInt(25000))
    /\ REq(call.A_rocket, Dec(158, 1))

\* 15.8 / (pi * 25000^2)
ExampleRisk == RDiv(Dec(158, 1), RMul(PI, RInt(625000000)))

\* C4 as stated: the example launch returns collision_risk 15.8/(pi * 25000^2)
\* and risk_class 'A (Very Low)'.
C4_ExampleIsClassA ==
    ExampleLaunch =>
        /\ IsReport(call.result)
        /\ REq(call.result.collision_risk, ExampleRisk)
        /\ call.result.risk_class = "A (Very Low)"

\* C4 amended: the example launch returns collision_risk 15.8/(pi * 25000^2),
\* which is below 1e-7, and risk_class 'A+ (Minimal)'.
C4_ExampleIsClassAPlus ==
    ExampleLaunch =>
        /\ IsReport(call.result)
        /\ REq(call.result.collision_risk, ExampleRisk)
        /\ RLess(call.result.collision_risk, Dec(1, 7))
        /\ call.result.risk_class = "A+ (Minimal)"

C4_Witness == ExampleLaunch /\ IsReport(call.result)

\* C5 as stated: in every report the insurance_premium field is the
\* financial_risk field times 1.5, and the financial_risk field is
\* collision_risk times the total cost.
C5_FieldsAreExactProducts ==
    ReportDone =>
        /\ REq(call.result.insurance_premium,
               RMul(call.result.financial_risk, Dec(15, 1)))
        /\ REq(call.result.financial_risk,
               RMul(call.result.collision_risk, TotalCost))

\* f is x rounded to the nearest multiple of 0.01, a tie to the even multiple
IsRoundedToCents(f, x) ==
    LET cents == NDivMod(NMul(f.n, NFromInt(100)), f.d)
        diff  == RAbs(RSub(f, x))
    IN  /\ cents.r = <<>>
        /\ RLeq(diff, Dec(5, 3))
        /\ REq(diff, Dec(5, 3)) => Limb(cents.q, 1) % 2 = 0

\* C5 amended: in every report the financial_risk field is collision_risk
\* times the total cost rounded to 2 decimals, and the insurance_premium field
\* is collision_risk times the total cost times 1.5, rounded to 2 decimals.
C5_FieldsAreRoundedProducts ==
    ReportDone =>
        LET risk == RMul(call.result.collision_risk, TotalCost)
        IN  /\ IsRoundedToCents(call.result.financial_risk, risk)
            /\ IsRoundedToCents(call.result.insurance_premium, RMul(risk, Dec(15, 1)))

\* a report whose financial_risk field differs from the product it rounds,
\* and whose premium field is not 1.5 times its financial_risk field
C5_Witness ==
    /\ ReportDone
    /\ ~REq(call.result.financial_risk, RMul(call.result.collision_risk, TotalCost))
    /\ ~REq(call.result.insurance_premium,
            RMul(call.result.financial_risk, Dec(15, 1)))

\* C10: a shell call returns the error-only result exactly when the shell
\* volume is not positive, a launch call exactly when the radius is not
\* positive, and every other call returns a full report: none raises.
C10_ErrorOnlyOnInvalidGeometry ==
    /\ ShellDone =>
          LET invalid == RLeq(RMul(RMul(RFrac(4, 3), PI),
                                   RSub(RPow(RAdd(RInt(6371), call.H_upper), 3),
                                        RPow(RAdd(RInt(6371), call.H_lower), 3))), RZero)
          IN  IF invalid THEN IsError(call.result) ELSE IsReport(call.result)
    /\ LaunchDone =>
          IF RLeq(call.launch_cylinder_radius_m, RZero)
          THEN IsError(call.result) ELSE IsReport(call.result)

OrbitRiskDone == call.fn = "orbit_collision_risk" /\ ~IsPending(call.result)

\* the report of a population of no objects
IsZeroRiskReport(r) ==
    /\ IsReport(r)
    /\ REq(r.collision_risk, RZero)
    /\ REq(r.financial_risk, RZero)
    /\ r.risk_class = "A+ (Minimal)"

LaunchRiskNotBelow(N, A) ==
    \A res \in calculate_launch_collision_risk(N, call.launch_cylinder_radius_m, A,
                                               call.C_total_loss) :
        /\ IsReport(res)
        /\ RLeq(call.result.collision_risk, res.collision_risk)

\* C12: for the conjunction model with a positive radius and a non-negative
\* A_rocket, collision_risk is 0 when N_conjunctions = 0 and does not
\* decrease when N_conjunctions grows by one or when A_rocket grows.
C12_LaunchRiskMonotone ==
    /\ LaunchDone
    /\ IsReport(call.result)
    /\ call.N_conjunctions < MaxConj
    /\ RLess(RZero, call.launch_cylinder_radius_m)
    /\ NonNegative(call.A_rocket)
    =>  /\ call.N_conjunctions = 0 => REq(call.result.collision_risk, RZero)
        /\ LaunchRiskNotBelow(call.N_conjunctions + 1, call.A_rocket)
        /\ \A A \in LaunchAreas :
              RLeq(call.A_rocket, A) => LaunchRiskNotBelow(call.N_conjunctions, A)

(***************************************************************************)
(* Properties of the congestion analyzer.                                  *)
(***************************************************************************)
Returned == pc = "returned"

\* the arguments name an altitude range whose minimum exceeds its maximum
ReversedRange == pc # "idle" /\ RLess(args.max_altitude_km, args.min_altitude_km)

\* C6: for every altitude range with min_altitude_km > max_altitude_km and
\* every object list, the analyzer raises nothing and returns an empty map
\* and an empty filtered list.
C6_ReversedRangeGivesEmptyResult ==
    ReversedRange =>
        /\ pc # "raised"
        /\ Returned => congestion_map = <<>> /\ filtered_satellites = <<>>

\* The object has both TLE lines, its propagation does not raise, and its
\* mean motion and inclination lie in the closed ranges lo..hi and the
\* inclination arguments.
Accepts(sat, lo, hi) ==
    /\ sat.line1 # ""
    /\ sat.line2 # ""
    /\ LET e == EarthSatellite(sat.line1, sat.line2)
       IN  /\ ~IsRaised(e)
           /\ RLeq(lo, e.mean_motion) /\ RLeq(e.mean_motion, hi)
           /\ RLeq(args.min_inclination, e.inclination_deg)
           /\ RLeq(e.inclination_deg, args.max_inclination)

AcceptedByFilters(sat) == Accepts(sat, min_mean_motion_filter, max_mean_motion_filter)

\* the objects of the list read so far that are accepted, by their index
AcceptedIndices == {i \in DOMAIN tle_data_dicts : AcceptedByFilters(tle_data_dicts[i])}

\* the key (round(mean_motion, 1), round(inclination)) of the i-th object
KeyOf(i) ==
    LET e == EarthSatellite(tle_data_dicts[i].line1, tle_data_dicts[i].line2)
    IN  <<round(e.mean_motion, 1), int(round(e.inclination_deg, 0))>>

RECURSIVE RSum(_, _)
\* the sum of the field of the elements of the objects with their index in S
RSum(S, field) ==
    IF S = {} THEN RZero
    ELSE LET i == CHOOSE j \in S : TRUE
             e == EarthSatellite(tle_data_dicts[i].line1, tle_data_dicts[i].line2)
         IN  RAdd(e[field], RSum(S \ {i}, field))

\* every cell holds the count and the plain arithmetic means of the accepted
\* objects with its key, and there is no other cell
MapIsPlainMeans ==
    /\ DOMAIN congestion_map = {KeyOf(i) : i \in AcceptedIndices}
    /\ \A k \in DOMAIN congestion_map :
          LET members == {i \in AcceptedIndices : KeyOf(i) = k}
              n       == Cardinality(members)
          IN  /\ congestion_map[k].count = n
              /\ REq(congestion_map[k].avg_inclination,
                     RDiv(RSum(members, "inclination_deg"), RInt(n)))
              /\ REq(congestion_map[k].avg_mean_motion,
                     RDiv(RSum(members, "mean_motion"), RInt(n)))

RECURSIVE MapOfList(_, _)
\* the map the analyzer builds from the first n objects of the list l
MapOfList(l, n) ==
    IF n = 0 THEN <<>>
    ELSE loop_body(l[n], MapOfList(l, n - 1), <<>>, min_mean_motion_filter,
                   max_mean_motion_filter, args.min_inclination,
                   args.max_inclination).congestion_map

SameMap(m1, m2) ==
    /\ DOMAIN m1 = DOMAIN m2
    /\ \A k \in DOMAIN m1 :
          /\ m1[k].count = m2[k].count
          /\ REq(m1[k].avg_inclination, m2[k].avg_inclination)
          /\ REq(m1[k].avg_mean_motion, m2[k].avg_mean_motion)

C8_FilteredListIsTheAcceptedObjects ==
    /\ pc = "loop" /\ tle_data_dicts = <<>> =>
          /\ min_mean_motion_filter \in altitude_to_mean_motion(args.max_altitude_km)
          /\ max_mean_motion_filter \in altitude_to_mean_motion(args.min_altitude_km)
    /\ pc \in {"loop", "returned"} =>
          filtered_satellites = SelectSeq(tle_data_dicts, AcceptedByFilters)

\* a returned list that holds an object read after a raising one and an
\* object whose mean motion is on a bound of the window
C8_Witness ==
    /\ Returned
    /\ \E i, j \in DOMAIN tle_data_dicts :
          /\ i < j
          /\ tle_data_dicts[i].line1 # ""
          /\ IsRaised(EarthSatellite(tle_data_dicts[i].line1, tle_data_dicts[i].line2))
          /\ \E m \in DOMAIN filtered_satellites :
                filtered_satellites[m] = tle_data_dicts[j]
    /\ \E m \in DOMAIN filtered_satellites :
          LET e == EarthSatellite(filtered_satellites[m].line1, filtered_satellites[m].line2)
          IN  REq(e.mean_motion, max_mean_motion_filter)

\* the sum of the counts of all cells
TotalCount == BagCardinality([k \in DOMAIN congestion_map |-> congestion_map[k].count])

\* One object has been read: either the list and the map are as before, or
\* the object is appended to the list and exactly one cell has its count
\* raised by one and both its averages moved by the object's values, the
\* other cells being as before.
ObjectFullyInOrOut ==
    pc = "loop" /\ tle_data_dicts' # tle_data_dicts =>
        LET sat == tle_data_dicts'[Len(tle_data_dicts')]
            e   == EarthSatellite(sat.line1, sat.line2)
            Old(k) == IF k \in DOMAIN congestion_map THEN congestion_map[k]
                      ELSE [count |-> 0, avg_inclination |-> RZero,
                            avg_mean_motion |-> RZero]
        IN  \/ /\ filtered_satellites' = filtered_satellites
               /\ congestion_map' = congestion_map
            \/ /\ filtered_satellites' = Append(filtered_satellites, sat)
               /\ DOMAIN congestion_map \subseteq DOMAIN congestion_map'
               /\ \E k \in DOMAIN congestion_map' :
                     /\ congestion_map'[k].count = Old(k).count + 1
                     /\ REq(RMul(congestion_map'[k].avg_inclination,
                                 RInt(Old(k).count + 1)),
                            RAdd(RMul(Old(k).avg_inclination, RInt(Old(k).count)),
                                 e.inclination_deg))
                     /\ REq(RMul(congestion_map'[k].avg_mean_motion,
                                 RInt(Old(k).count + 1)),
                            RAdd(RMul(Old(k).avg_mean_motion, RInt(Old(k).count)),
                                 e.mean_motion))
                     /\ \A other \in DOMAIN congestion_map' \ {k} :
                           /\ other \in DOMAIN congestion_map
                           /\ congestion_map'[other] = congestion_map[other]

\* C9: an object either fully contributes or is fully excluded: each step of
\* the loop leaves the list and the map alone or appends the object and
\* counts it in exactly one cell with both averages updated, and the sum of
\* the cell counts always equals the length of the filtered list.
C9_NoPartialContribution ==
    /\ [](TotalCount = Len(filtered_satellites))
    /\ [][ObjectFullyInOrOut]_vars

\* a returned result with a counted object and an object that is inside the
\* mean-motion window but was excluded for its inclination
C9_Witness ==
    /\ Returned
    /\ Len(filtered_satellites) >= 1
    /\ TotalCount = Len(filtered_satellites)
    /\ \E i \in DOMAIN tle_data_dicts :
          LET sat == tle_data_dicts[i]
              e   == EarthSatellite(sat.line1, sat.line2)
          IN  /\ sat.line1 # ""
              /\ ~IsRaised(e)
              /\ RLeq(min_mean_motion_filter, e.mean_motion)
              /\ RLeq(e.mean_motion, max_mean_motion_filter)
              /\ RLess(args.max_inclination, e.inclination_deg)

\* C19: for every altitude range with min_altitude_km <= max_altitude_km,
\* negative altitudes included, min_mean_motion_filter is at most
\* max_mean_motion_filter: the conversion never gives the higher altitude
\* the larger mean motion.
C19_WindowIsOrdered ==
    pc \in {"loop", "returned"} /\ RLeq(args.min_altitude_km, args.max_altitude_km) =>
        RLeq(min_mean_motion_filter, max_mean_motion_filter)

(***************************************************************************)
(* Properties of the trajectory generator and of the takeoff sweep.        *)
(***************************************************************************)
\* generate_simplified_trajectory has returned
TrajectoryGenerated == takeoff_pc \notin {"idle", "called"}

\* C13: the generator returns the empty list whenever ascent_time_s <= 0;
\* for a positive integer ascent_time_s it returns ceil(ascent_time_s / 10) + 1
\* points, the k-th of them (counted from 0) stamped launch_date + 10 k seconds.
C13_PointCountAndTimeStamps ==
    TrajectoryGenerated =>
        IF request.ascent_time_s <= 0 THEN trajectory = <<>>
        ELSE /\ Len(trajectory) = ((request.ascent_time_s + 9) \div 10) + 1
             /\ \A k \in 0..(Len(trajectory) - 1) :
                   trajectory[k + 1].time_obj = request.launch_date + 10 * k

\* an ascent that is no whole number of steps has been laid out
C13_Witness ==
    /\ TrajectoryGenerated
    /\ request.ascent_time_s = 25
    /\ Len(trajectory) = 4
    /\ trajectory[4].time_obj = request.launch_date + 30

\* a pass of the inner loop has just computed cpa_result for trajectory[i]
\* and the object before sat_cursor
PairComputed ==
    /\ takeoff_pc = "pairs"
    /\ sat_cursor > 1
    /\ ~IsPending(cpa_result)

SameVelocity == VEq(trajectory[i_segment + 1].velocity, sat_state.velocity)

\* C15: for two bodies of identical velocity calculate_cpa returns the time 0
\* and, as distance, the norm of pos_b - pos_a.
C15_IdenticalVelocities ==
    PairComputed /\ SameVelocity =>
        LET dp == VSub(sat_state.position, trajectory[i_segment + 1].position)
        IN  /\ REq(cpa_result.time, RZero)
            /\ REq(cpa_result.distance, sqrt(VDot(dp, dp)))

\* the debris that moves with the rocket, 3 km beside it
C15_Witness ==
    /\ PairComputed
    /\ SameVelocity
    /\ REq(cpa_result.distance, RInt(3))

InWindow(r) ==
    /\ RLeq(RZero, r.time)
    /\ RLeq(r.time, RInt(10))
    /\ RLess(r.distance, launch_corridor_km(request.launch_radius_meters))

\* C16: a CPA result is counted only if its time lies in [0, 10] s and its
\* distance is strictly below the corridor radius; a result with a negative
\* time or a time beyond 10 s never increases dangerous_conjunctions.
C16_CountedOnlyInsideWindow ==
    [][dangerous_conjunctions' > dangerous_conjunctions =>
          /\ ~IsPending(cpa_result')
          /\ InWindow(cpa_result')
          /\ dangerous_conjunctions' = dangerous_conjunctions + 1]_vars

\* after a counted conjunction, a result inside the corridor but already
\* past (negative time) was passed over
C16_Witness ==
    /\ PairComputed
    /\ dangerous_conjunctions = 1
    /\ RLess(cpa_result.time, RZero)
    /\ RLess(cpa_result.distance, launch_corridor_km(request.launch_radius_meters))

\* C17: in every non-empty trajectory each point but the last has the
\* velocity (position of the next point - its own position) / 10, and the
\* last point has the velocity of the point before it.
C17_VelocitiesAreForwardDifferences ==
    TrajectoryGenerated /\ trajectory # <<>> =>
        /\ \A k \in 1..(Len(trajectory) - 1) :
              VEq(trajectory[k].velocity,
                  VDiv(VSub(trajectory[k + 1].position, trajectory[k].position), RInt(10)))
        /\ Len(trajectory) >= 2
        /\ trajectory[Len(trajectory)].velocity = trajectory[Len(trajectory) - 1].velocity

\* a trajectory whose last segment is slower than the ones before
C17_Witness ==
    /\ TrajectoryGenerated
    /\ Len(trajectory) = 4
    /\ ~VEq(trajectory[2].velocity, trajectory[3].velocity)
    /\ VEq(trajectory[4].velocity, trajectory[3].velocity)

SweepBound ==
    /\ takeoff_pc = "pairs" => i_segment + 1 < Len(trajectory)
    /\ \A a, b \in DOMAIN evaluated_pairs : a # b => evaluated_pairs[a] # evaluated_pairs[b]
    /\ \A a \in DOMAIN evaluated_pairs : evaluated_pairs[a][1] + 1 < Len(trajectory)
    /\ dangerous_conjunctions <= Len(evaluated_pairs)
    /\ Len(trajectory) >= 1 =>
          dangerous_conjunctions <= (Len(trajectory) - 1) * Len(all_satellites_in_path)
    /\ trajectory = <<>> \/ all_satellites_in_path = <<>> => dangerous_conjunctions = 0

RaisingPairIsPassedOver ==
    IsRaised(sat_state') /\ sat_state' # sat_state =>
        /\ dangerous_conjunctions' = dangerous_conjunctions
        /\ takeoff_pc' = "pairs"
        /\ sat_cursor' = sat_cursor + 1

\* C18: the last trajectory point is never a segment start and every
\* (segment, object) pair is evaluated at most once, so dangerous_conjunctions
\* never exceeds (points - 1) x (filtered objects) and is 0 for an empty
\* trajectory or an empty object list; a pair whose position computation
\* raises leaves the count unchanged and the sweep goes on.
C18_SweepIsBounded == []SweepBound /\ [][RaisingPairIsPassedOver]_vars

\* the sweep has gone on after a raising pair and has counted a conjunction
C18_Witness ==
    /\ takeoff_pc = "done"
    /\ dangerous_conjunctions >= 1
    /\ Len(evaluated_pairs) = (Len(trajectory) - 1) * Len(all_satellites_in_path)
    /\ Len(all_satellites_in_path) = 2
    /\ IsRaised(sat_state)

(***************************************************************************)
(* Properties of the importer.                                             *)
(***************************************************************************)
\* the cache file holds a document with both keys and an ISO timestamp
Intact(file) ==
    /\ file.exists
    /\ "json" \in DOMAIN file
    /\ DOMAIN file.json = {"timestamp", "data"}
    /\ DOMAIN file.json.timestamp = {"date", "time"}

\* the hour an intact cache file is stamped with
StampOf(file) == file.json.timestamp.date * 24 + file.json.timestamp.time

\* this step is a call of get_all_trackable_objects: it returns from the
\* cache or it starts the download
CallStep == importer_pc = "idle" /\ (result' # result \/ importer_pc' = "fetch")

ServedFromCache ==
    /\ importer_pc' = "idle"
    /\ result' = [returned |-> cache_file.json.data, requests |-> 0, wrote |-> FALSE]
    /\ cache_file' = cache_file

FreshCacheIsServed ==
    CallStep /\ Intact(cache_file) /\ now - StampOf(cache_file) < 4 => ServedFromCache

RefreshesAreFourHoursApart ==
    /\ importer_pc = "idle" /\ importer_pc' = "fetch"
    /\ last_refresh # NoRefresh
    /\ ~damaged_since
    => now - last_refresh.written >= 4

\* C14: a call made while an intact cache file is stamped less than 4 hours
\* ago returns the cached list, sends no request and does not write the
\* cache; hence two consecutive refreshes with the cache left intact between
\* them are at least 4 hours apart.
C14_FreshCacheIsServed == [][FreshCacheIsServed /\ RefreshesAreFourHoursApart]_vars

\* a call has returned the two downloaded objects from a cache 3 hours old
C14_Witness ==
    /\ importer_pc = "idle"
    /\ ~damaged_since
    /\ Intact(cache_file)
    /\ now = last_refresh.written + 3
    /\ result = [returned |-> cache_file.json.data, requests |-> 0, wrote |-> FALSE]
    /\ Len(cache_file.json.data) = 2

RefreshEndsInCacheWrite ==
    importer_pc = "fetch" /\ importer_pc' = "idle" =>
        /\ ~IsPending(result')
        /\ result'.wrote
        /\ cache_file' = [exists |-> TRUE,
                          json |-> [timestamp |-> isoformat(now), data |-> result'.returned]]
        /\ all_failed => result'.returned = <<>>

EmptyCacheIsServed ==
    /\ CallStep
    /\ ~damaged_since
    /\ last_refresh.all_failed
    /\ now - last_refresh.written < 4
    => /\ cache_file.json.data = <<>>
       /\ ServedFromCache

\* C20: a refresh (cache missing, unreadable or at least 4 hours old) ends by
\* overwriting the cache with exactly the list it returns and the current
\* timestamp; if every category request fails, the cache then holds an empty
\* list and the calls of the next 4 hours return that empty list.
C20_RefreshOverwritesCache == [][RefreshEndsInCacheWrite /\ EmptyCacheIsServed]_vars

\* 3 hours after a refresh whose requests all failed, a call has returned
\* the empty list from the cache
C20_Witness ==
    /\ importer_pc = "idle"
    /\ last_refresh.all_failed
    /\ ~damaged_since
    /\ now = last_refresh.written + 3
    /\ result = [returned |-> <<>>, requests |-> 0, wrote |-> FALSE]
    /\ Intact(cache_file)
    /\ cache_file.json.data = <<>>

====
